---- MODULE Spec2Model ----
(***************************************************************************)
(* Model of the case-provisioning orchestration of the healthcare demo     *)
(* backend (examples/healthcare-insurance/demo-backend.ts).                *)
(*                                                                         *)
(* Node.js runs one piece of JavaScript at a time.  A request handler or a *)
(* response callback starts as a macrotask and runs until it reaches an    *)
(* await; continuations of settled promises are microtasks, which all run  *)
(* before the next macrotask.  The model keeps                             *)
(*   cur  the request whose code is on the stack (0: none), so that the    *)
(*        steps of one synchronous run are never interleaved, and          *)
(*   mq   the FIFO microtask queue; macrotasks need cur = 0 and mq empty.  *)
(* Each POST /cases request has two coroutines: the route handler (field   *)
(* h) and the creationPromise async block, the "workflow" (field w).       *)
(***************************************************************************)
EXTENDS Integers, Sequences, FiniteSets, TLC

\* ---------------------------------------------------------------- bounds
MaxRequests == 2
MaxParts == 2

CaseIds == {"c1", "c2"}
UserIds == {"u1", "u2"}
\* a role of the Role type, and a role the request body may carry all the same
Roles == {"patient", "nurse"}
\* the role of a createCase participant before the code has read it
AnyRole == "any"
Requests == 1..MaxRequests

\* ------------------------------------------------------ program constants
AppId == "app"
ETHORA_JID_DOMAIN == "@conference.xmpp.ethoradev.com"

\* ------------------------------------------------------------- variables
VARIABLES
    boot,               \* start-up: the environment and how far the module has loaded
    users,              \* Map userId -> Participant (the participant cache)
    cases,              \* Map caseId -> CaseRecord
    caseCreationLocks,  \* Map caseId -> creationPromise (0: no entry, r: request r's promise)
    req,                \* the requests: inputs, position of handler and workflow, response
    promise,            \* state of each request's creationPromise
    reactions,          \* handlers awaiting each pending creationPromise, in order
    mq,                 \* microtask queue
    cur,                \* request whose code is running, 0 when the stack is empty
    prev                \* history, read by the properties only: the state before the last step

vars == <<boot, users, cases, caseCreationLocks, req, promise, reactions, mq, cur, prev>>

\* the program's state, and the step's record of the state it started from
Now ==
    [boot |-> boot, users |-> users, cases |-> cases,
     caseCreationLocks |-> caseCreationLocks, req |-> req, promise |-> promise,
     reactions |-> reactions, mq |-> mq, cur |-> cur]
Recorded == prev' = Now

\* ------------------------------------------------------------ data shapes
NoErr == [kind |-> "none", status |-> 0, body |-> ""]
E422Exists == [kind |-> "axios", status |-> 422, body |-> "already exists"]
E422Other == [kind |-> "axios", status |-> 422, body |-> "invalid"]
E500 == [kind |-> "axios", status |-> 500, body |-> "internal"]
ENoResponse == [kind |-> "axios", status |-> 0, body |-> ""]
\* an error that is not an axios error: a TypeError thrown by the code itself
EOther == [kind |-> "other", status |-> 0, body |-> "TypeError"]

\* answers to a DELETE call: 422 with the text "not found" as a string body,
\* in another letter case, or inside a JSON object body
E422NotFound == [kind |-> "axios", status |-> 422, body |-> "not found"]
E422NotFoundCaps == [kind |-> "axios", status |-> 422, body |-> "Not Found"]
E422NotFoundObj == [kind |-> "axios", status |-> 422, body |-> "{error: not found}"]

\* a successful user-creation response: with or without results[0].xmppUsername
OkPlain == [kind |-> "ok", status |-> 200, body |-> ""]
OkXmpp == [kind |-> "ok", status |-> 200, body |-> "xmpp"]

\* what the external API can answer to a call that was issued; every
\* rejection of an issued axios call is an axios error
UserOutcomes == {OkPlain, OkXmpp, E422Exists, E422Other, E500}
RoomOutcomes == {OkPlain, E422Exists, E422Other, E500, ENoResponse}
GrantOutcomes == {OkPlain, E500}
DeleteOutcomes == {OkPlain, E422NotFound, E422NotFoundCaps, E422NotFoundObj, E500}

NoUser == [present |-> FALSE, xmppUsername |-> "", lastName |-> "", obj |-> <<0, 0>>]
NoCase == [present |-> FALSE, caseId |-> "", participants |-> <<>>]
NoResp == [status |-> 0, caseId |-> "", roomJid |-> "", participants |-> <<>>, details |-> ""]

\* what a repository call gave back: the API response, a soft result, or a
\* thrown error; reason is "undefined" when the object has no such property
NoResult == [kind |-> "none", ok |-> TRUE, reason |-> "undefined"]
ApiResult == [kind |-> "response", ok |-> TRUE, reason |-> "undefined"]
Thrown == [kind |-> "thrown", ok |-> FALSE, reason |-> "undefined"]
SoftResult(reason) == [kind |-> "soft", ok |-> FALSE, reason |-> reason]

BoundedSeq(S, n) == UNION {[1..k -> S] : k \in 0..n}

\* the optional name fields of a Participant; "" stands for a field left out
FirstNames == {"", "John"}
LastNames == {"", "X", "Smith"}
DisplayNames == {"", "Jane Doe"}
Profiles == [firstName : FirstNames, lastName : LastNames, displayName : DisplayNames]
NoProfile == [firstName |-> "", lastName |-> "", displayName |-> ""]

NewReq ==
    [kind |-> "none", h |-> "new", w |-> "none", caseId |-> "", parts |-> <<>>,
     roles |-> <<>>, profiles |-> <<>>, iterable |-> TRUE, i |-> 0, xmpp |-> <<>>, ret |-> "", out |-> NoErr,
     err |-> NoErr, awaiting |-> 0, resp |-> NoResp, result |-> NoResult,
     \* the identifier the client token was created for
     token |-> "",
     \* history, read by the properties only: the external calls issued, the
     \* participants whose grant failed, the requests answered before arrival
     \* and the participants whose user-creation call was answered with
     \* success, or with the conflict
     calls |-> <<>>, gfail |-> {}, seen |-> {}, created |-> {}, conflicts |-> {},
     \* the number of answers the request's calls have had
     answered |-> 0]

\* ------------------------------------------------------- pure functions
\* process.env: a variable is not set, set to the empty string, or set
Envs == [{"ETHORA_CHAT_API_URL", "ETHORA_CHAT_APP_ID", "ETHORA_CHAT_APP_SECRET"}
            -> {"undefined", "", "set"}]
\* !value
Falsy(v) == v \in {"undefined", ""}

\* only the URL and the application id are required
getSecretsSyncForgetsSecret(env) ==
    IF Falsy(env["ETHORA_CHAT_API_URL"]) \/ Falsy(env["ETHORA_CHAT_APP_ID"])
      THEN "Error" ELSE "Secrets"

\* getSecretsSync: throws unless the three settings are there
getSecretsSync(env) ==
    IF Falsy(env["ETHORA_CHAT_API_URL"]) \/ Falsy(env["ETHORA_CHAT_APP_ID"])
          \/ Falsy(env["ETHORA_CHAT_APP_SECRET"])
      THEN "Error" ELSE "Secrets"

\* String.includes("already exist") on the error text
IncludesAlreadyExist(body) == body \in {"already exists", "already exist"}

\* the conflict is looked for under status 409
IsAlreadyExists409(e) ==
    e.kind = "axios" /\ e.status = 409 /\ IncludesAlreadyExist(e.body)

\* generateRandomUserData: roleData[role] is defined for the three roles of the
\* Role type only; data.firstNames throws a TypeError for any other role
RoleDataKeys == {"admin", "practitioner", "patient"}
generateRandomUserData(role) == IF role \in RoleDataKeys THEN "random" ELSE "TypeError"

\* the names generateRandomUserData picks from the pool of a role
RandomData == [firstName |-> "Mary", lastName |-> "Miller", displayName |-> "Mary Miller"]

\* ensureUser, lines 252-279: the userData built from the participant; a
\* lastName shorter than two characters is replaced by "User"
userData(user) ==
    [firstName |-> user.firstName,
     displayName |-> user.displayName,
     lastName |-> IF user.lastName # "" /\ Len(user.lastName) >= 2 THEN user.lastName
                  ELSE IF user.lastName # "" THEN "User"
                  ELSE ""]

\* displayName.trim().split(/\s+/) on the display names the model knows
NameParts(displayName) ==
    IF displayName = "Jane Doe" THEN <<"Jane", "Doe">>
    ELSE IF displayName = "Mary Miller" THEN <<"Mary", "Miller">>
    ELSE <<displayName>>

\* the payload keeps whatever lastName it was given
PayloadNamesAsGiven(data) ==
    [firstName |-> IF data.firstName # "" THEN data.firstName ELSE "User",
     lastName |-> data.lastName]

\* createUserDirect, lines 141-159: firstName and lastName of the payload
PayloadNames(data) ==
    LET names == IF data.firstName # ""
                   THEN <<data.firstName, data.lastName>>
                 ELSE IF data.displayName # ""
                   THEN <<NameParts(data.displayName)[1],
                          IF Len(NameParts(data.displayName)) > 1
                            THEN NameParts(data.displayName)[2] ELSE "">>
                 ELSE <<"User", "">>
    IN  [firstName |-> names[1],
         lastName |-> IF names[2] = "" \/ Len(names[2]) < 2 THEN "User" ELSE names[2]]

\* ensureUser: status 422 and the text says the user exists
IsAlreadyExists(e) ==
    e.kind = "axios" /\ e.status = 422 /\ IncludesAlreadyExist(e.body)

\* typeof data === "string"
IsString(body) == body # "{error: not found}"
\* String.toLowerCase on the bodies the model knows
ToLowerCase(body) == IF body = "Not Found" THEN "not found" ELSE body
\* String.includes("not found")
IncludesNotFound(body) == body \in {"not found", "{error: not found}"}

\* EthoraSDKService.deleteUsers: what the call gives back for an answer
deleteUsers(out) ==
    IF out.kind = "ok" THEN ApiResult
    ELSE IF out.kind = "axios" /\ out.status = 422 /\ IsString(out.body)
              /\ IncludesNotFound(out.body)
      THEN [kind |-> "soft", ok |-> FALSE, reason |-> "undefined"]
      ELSE Thrown

\* a deleteChatRoom that rethrows every failure
deleteChatRoomAlwaysThrows(out) == IF out.kind = "ok" THEN ApiResult ELSE Thrown

\* EthoraSDKService.deleteChatRoom: what the call gives back for an answer
deleteChatRoom(out) ==
    IF out.kind = "ok" THEN ApiResult
    ELSE IF out.kind = "axios" /\ out.status = 422 /\ IsString(out.body)
              /\ IncludesNotFound(ToLowerCase(out.body))
      THEN SoftResult("Chat room not found")
      ELSE Thrown

\* the application id is left out of the full name
createChatNameNoPrefix(workspaceId, full) ==
    IF full THEN workspaceId \o ETHORA_JID_DOMAIN
            ELSE AppId \o "_" \o workspaceId

createChatName(workspaceId, full) ==
    IF full THEN AppId \o "_" \o workspaceId \o ETHORA_JID_DOMAIN
            ELSE AppId \o "_" \o workspaceId

\* the xmppUsername ensureUser takes from a successful response
XmppFromResponse(out, userId) ==
    IF out.body = "xmpp" THEN AppId \o "_" \o userId ELSE userId

\* a cache that is never hit
CacheHitNever(userId) == FALSE
\* cachedUser?.xmppUsername is truthy
CacheHit(userId) == users[userId].present /\ users[userId].xmppUsername # ""

\* res.json({caseId, roomJid, participants}) rebuilt from the case map
ExistingCaseResponse(c) ==
    [status |-> 200, caseId |-> c, roomJid |-> createChatName(c, TRUE),
     participants |-> cases[c].participants, details |-> ""]

\* the error response of the catch after `await creationPromise`
FailureResponse(e) ==
    [status |-> IF e.kind = "axios" /\ e.status # 0 THEN e.status ELSE 500,
     caseId |-> "", roomJid |-> "", participants |-> <<>>,
     details |-> IF e.kind = "axios" THEN e.body ELSE "message"]

\* a handler that never finds the record
CasesHasNever(c) == FALSE
CasesHas(c) == cases[c].present
\* a handler that never finds the marker
LocksHasNever(c) == FALSE
LocksHas(c) == caseCreationLocks[c] # 0

\* ------------------------------------------------------------------ Init
\* the process starts with some environment and nothing loaded yet
Init ==
    /\ boot \in [phase : {"loading"}, env : Envs]
    /\ users = [u \in UserIds |-> NoUser]
    /\ cases = [c \in CaseIds |-> NoCase]
    /\ caseCreationLocks = [c \in CaseIds |-> 0]
    /\ req = [r \in Requests |-> NewReq]
    /\ promise = [r \in Requests |-> "none"]
    /\ reactions = [r \in Requests |-> <<>>]
    /\ mq = <<>>
    /\ cur = 0
    /\ prev = Now

\* ---------------------------------------------------------------- start-up
\* line 44: const secrets = getSecrets(); an exception ends the module load
StartupGetSecrets ==
    /\ boot.phase = "loading"
    /\ boot' = [boot EXCEPT !.phase = IF getSecretsSync(boot.env) = "Error"
                                        THEN "failed" ELSE "configured"]
    /\ UNCHANGED <<users, cases, caseCreationLocks, req, promise, reactions, mq, cur>>
    /\ Recorded

\* lines 999-1002: app.listen
StartupListen ==
    /\ boot.phase = "configured"
    /\ boot' = [boot EXCEPT !.phase = "listening"]
    /\ UNCHANGED <<users, cases, caseCreationLocks, req, promise, reactions, mq, cur>>
    /\ Recorded

\* the server accepts requests
Serving == boot.phase = "listening"

\* ------------------------------------------------------ scheduling helpers
\* the route handler of r is the code on the stack
RunsHandler(r) == cur = r /\ req[r].h \in {"setlock", "resume"}
\* the creationPromise block of r is the code on the stack
RunsWorkflow(r) == cur = r /\ req[r].h \notin {"setlock", "resume"}

\* the async block reached an await (or ended): control returns to whoever
\* called it, which is the route handler during the first synchronous run
AfterSuspend(rec) == IF rec.h = "calling" THEN [rec EXCEPT !.h = "setlock"] ELSE rec
CurAfterSuspend(r) == IF req[r].h = "calling" THEN r ELSE 0

Microtask(r, k) == [id |-> r, k |-> k]

RECURSIVE HandlerTasks(_)
HandlerTasks(ids) ==
    IF ids = <<>> THEN <<>>
    ELSE <<Microtask(Head(ids), "h")>> \o HandlerTasks(Tail(ids))

\* a new request is the next unused slot
Fresh(r) == req[r].kind = "none" /\ \A q \in Requests : q < r => req[q].kind # "none"

\* the workflow of r has been started and has not yet settled its promise
InFlight(r) == req[r].kind = "create" /\ req[r].w \notin {"none", "settled"}

Call(kind, arg, idx) == [kind |-> kind, arg |-> arg, idx |-> idx]

\* createUserDirect(userId, userData): the user-creation call with the names
\* of its payload
createUserDirect(userId, data, idx) ==
    [kind |-> "user", arg |-> userId, idx |-> idx,
     firstName |-> PayloadNames(data).firstName,
     lastName |-> PayloadNames(data).lastName]

\* grantAccessDirect(workspaceId, userId): the access-grant call, with the
\* chatName and the member of its payload
grantAccessDirect(workspaceId, userId, idx) ==
    [kind |-> "grant", arg |-> userId, idx |-> idx,
     room |-> AppId \o "_" \o workspaceId]

\* the requests that have been answered
Answered == {q \in Requests : req[q].h = "done"}
\* every request made so far has been answered
Idle == \A q \in Requests : req[q].kind = "none" \/ q \in Answered

\* the request r as it arrives: POST /cases with caseId c and the given body
Arrival(c, ps, rs, it) ==
    [NewReq EXCEPT !.kind = "create", !.caseId = c, !.parts = ps, !.roles = rs,
                   !.profiles = [k \in 1..Len(ps) |-> NoProfile],
                   !.iterable = it, !.seen = Answered]

\* --------------------------------------------------------- request inputs
\* participants submitted so far by all requests of the run
RECURSIVE Submitted(_)
Submitted(n) == IF n = 0 THEN 0 ELSE Len(req[n].parts) + Submitted(n - 1)

\* Identifiers are interchangeable, so a run names them in the order in which
\* it first uses them: "c2" only after "c1", "u2" only after "u1".
UsedCase(c) == \E q \in Requests : req[q].kind # "none" /\ req[q].caseId = c
UsedUser(u) == \E q \in Requests : \E k \in 1..Len(req[q].parts) : req[q].parts[k] = u
CanonicalCase(c) == c = "c1" \/ UsedCase("c1")
CanonicalParts(ps) ==
    \A k \in 1..Len(ps) :
        ps[k] = "u1" \/ UsedUser("u1") \/ \E j \in 1..(k - 1) : ps[j] = "u1"

\* request bodies: participants is an array, or not an array at all. The
\* workflow reads a participant's role in one place, line 410, so the role is
\* drawn from Roles there and kept from then on
Bodies ==
    {b \in [parts : BoundedSeq(UserIds, MaxParts), roles : BoundedSeq({AnyRole}, MaxParts),
            iterable : {TRUE}] : Len(b.parts) = Len(b.roles)}
        \cup {[parts |-> <<>>, roles |-> <<>>, iterable |-> FALSE]}

\* the requests the run may still make: it submits at most MaxParts
\* participants in all, under canonical names
Admissible(c, ps) ==
    /\ CanonicalCase(c)
    /\ CanonicalParts(ps)
    /\ Len(ps) + Submitted(MaxRequests) <= MaxParts

\* ------------------------------------------------- POST /cases: the handler
\* the repeated request replaces the participants of the existing record
PostCasesExistingUpdates(r, c, ps, rs, it) ==
    /\ Serving /\ cur = 0 /\ mq = <<>> /\ Fresh(r) /\ Admissible(c, ps)
    /\ CasesHas(c)
    /\ cases' = [cases EXCEPT ![c].participants = ps]
    /\ req' = [req EXCEPT ![r] = [Arrival(c, ps, rs, it) EXCEPT !.h = "done",
                  !.resp = ExistingCaseResponse(c)]]
    /\ UNCHANGED <<boot, users, caseCreationLocks, promise, reactions, mq, cur>>
    /\ Recorded

\* lines 641-659: the case exists, answer from local state
PostCasesExisting(r, c, ps, rs, it) ==
    /\ Serving /\ cur = 0 /\ mq = <<>> /\ Fresh(r) /\ Admissible(c, ps)
    /\ CasesHas(c)
    /\ req' = [req EXCEPT ![r] = [Arrival(c, ps, rs, it) EXCEPT !.h = "done",
                  !.resp = ExistingCaseResponse(c)]]
    /\ UNCHANGED <<boot, users, cases, caseCreationLocks, promise, reactions, mq, cur>>
    /\ Recorded

\* the handler waits without a reaction on the promise it awaits
PostCasesWaitNeverWoken(r, c, ps, rs, it) ==
    /\ Serving /\ cur = 0 /\ mq = <<>> /\ Fresh(r) /\ Admissible(c, ps)
    /\ ~CasesHas(c)
    /\ LocksHas(c)
    /\ req' = [req EXCEPT ![r] = [Arrival(c, ps, rs, it) EXCEPT !.h = "awaitLock",
                  !.awaiting = caseCreationLocks[c]]]
    /\ UNCHANGED <<boot, users, cases, caseCreationLocks, promise, reactions, mq, cur>>
    /\ Recorded

\* lines 661-666: a creation is in progress, await its promise
PostCasesWait(r, c, ps, rs, it) ==
    /\ Serving /\ cur = 0 /\ mq = <<>> /\ Fresh(r) /\ Admissible(c, ps)
    /\ ~CasesHas(c)
    /\ LocksHas(c)
    /\ LET p == caseCreationLocks[c] IN
        /\ req' = [req EXCEPT ![r] = [Arrival(c, ps, rs, it) EXCEPT !.h = "awaitLock",
                      !.awaiting = p]]
        /\ IF promise[p] = "pending"
             THEN /\ reactions' = [reactions EXCEPT ![p] = Append(@, r)]
                  /\ mq' = mq
             ELSE /\ reactions' = reactions
                  /\ mq' = Append(mq, Microtask(r, "h"))
    /\ UNCHANGED <<boot, users, cases, caseCreationLocks, promise, cur>>
    /\ Recorded

\* one marker for all cases: the request waits for a creation in progress
\* for whatever caseId
PostCasesStartGlobalLock(r, c, ps, rs, it) ==
    /\ Serving /\ cur = 0 /\ mq = <<>> /\ Fresh(r) /\ Admissible(c, ps)
    /\ ~CasesHas(c)
    /\ ~LocksHas(c)
    /\ IF \E d \in CaseIds : LocksHas(d) /\ promise[caseCreationLocks[d]] = "pending"
         THEN LET p == caseCreationLocks[CHOOSE d \in CaseIds : LocksHas(d)] IN
              /\ req' = [req EXCEPT ![r] = [Arrival(c, ps, rs, it) EXCEPT
                            !.h = "awaitLock", !.awaiting = p]]
              /\ reactions' = [reactions EXCEPT ![p] = Append(@, r)]
              /\ UNCHANGED <<promise, cur>>
         ELSE /\ req' = [req EXCEPT ![r] = [Arrival(c, ps, rs, it) EXCEPT
                            !.h = "calling", !.w = "start"]]
              /\ promise' = [promise EXCEPT ![r] = "pending"]
              /\ cur' = r
              /\ UNCHANGED reactions
    /\ UNCHANGED <<boot, users, cases, caseCreationLocks, mq>>
    /\ Recorded

\* lines 684-686: neither record nor marker, call the async block
PostCasesStart(r, c, ps, rs, it) ==
    /\ Serving /\ cur = 0 /\ mq = <<>> /\ Fresh(r) /\ Admissible(c, ps)
    /\ ~CasesHas(c)
    /\ ~LocksHas(c)
    /\ req' = [req EXCEPT ![r] = [Arrival(c, ps, rs, it) EXCEPT !.h = "calling",
                  !.w = "start"]]
    /\ promise' = [promise EXCEPT ![r] = "pending"]
    /\ cur' = r
    /\ UNCHANGED <<boot, users, cases, caseCreationLocks, reactions, mq>>
    /\ Recorded

\* the handler awaits the promise without storing it in the lock map
HSetLockForgets(r) ==
    /\ RunsHandler(r) /\ req[r].h = "setlock"
    /\ req' = [req EXCEPT ![r].h = "awaitOwn", ![r].awaiting = r]
    /\ IF promise[r] = "pending"
         THEN /\ reactions' = [reactions EXCEPT ![r] = Append(@, r)]
              /\ mq' = mq
         ELSE /\ reactions' = reactions
              /\ mq' = Append(mq, Microtask(r, "h"))
    /\ cur' = 0
    /\ UNCHANGED <<boot, users, cases, caseCreationLocks, promise>>
    /\ Recorded

\* line 834, then `await creationPromise` of line 837
HSetLock(r) ==
    /\ RunsHandler(r) /\ req[r].h = "setlock"
    /\ caseCreationLocks' = [caseCreationLocks EXCEPT ![req[r].caseId] = r]
    /\ req' = [req EXCEPT ![r].h = "awaitOwn", ![r].awaiting = r]
    /\ IF promise[r] = "pending"
         THEN /\ reactions' = [reactions EXCEPT ![r] = Append(@, r)]
              /\ mq' = mq
         ELSE /\ reactions' = reactions
              /\ mq' = Append(mq, Microtask(r, "h"))
    /\ cur' = 0
    /\ UNCHANGED <<boot, users, cases, promise>>
    /\ Recorded

\* the event loop takes the next microtask
RunMicrotask ==
    /\ cur = 0 /\ mq # <<>>
    /\ LET t == Head(mq) IN
        /\ cur' = t.id
        /\ req' = IF t.k = "h" THEN [req EXCEPT ![t.id].h = "resume"] ELSE req
    /\ mq' = Tail(mq)
    /\ UNCHANGED <<boot, users, cases, caseCreationLocks, promise, reactions>>
    /\ Recorded

\* the result names the room by its short name
HOwnResultShortName(r) ==
    /\ RunsHandler(r) /\ req[r].h = "resume" /\ req[r].awaiting = r
    /\ promise[r] = "fulfilled"
    /\ req' = [req EXCEPT ![r].h = "done",
                  ![r].resp = [status |-> 200, caseId |-> req[r].caseId,
                               roomJid |-> createChatName(req[r].caseId, FALSE),
                               participants |-> req[r].parts, details |-> ""]]
    /\ cur' = 0
    /\ UNCHANGED <<boot, users, cases, caseCreationLocks, promise, reactions, mq>>
    /\ Recorded

\* lines 819-825 and 837-838: creationPromise fulfilled with
\* {caseId, roomJid, participants}, which is sent as the response
HOwnResult(r) ==
    /\ RunsHandler(r) /\ req[r].h = "resume" /\ req[r].awaiting = r
    /\ promise[r] = "fulfilled"
    /\ req' = [req EXCEPT ![r].h = "done",
                  ![r].resp = [status |-> 200, caseId |-> req[r].caseId,
                               roomJid |-> createChatName(req[r].caseId, TRUE),
                               participants |-> req[r].parts, details |-> ""]]
    /\ cur' = 0
    /\ UNCHANGED <<boot, users, cases, caseCreationLocks, promise, reactions, mq>>
    /\ Recorded

\* lines 839-870: creationPromise rejected
HOwnCatch(r) ==
    /\ RunsHandler(r) /\ req[r].h = "resume" /\ req[r].awaiting = r
    /\ promise[r] = "rejected"
    /\ caseCreationLocks' = [caseCreationLocks EXCEPT ![req[r].caseId] = 0]
    /\ req' = [req EXCEPT ![r].h = "done", ![r].resp = FailureResponse(req[r].err)]
    /\ cur' = 0
    /\ UNCHANGED <<boot, users, cases, promise, reactions, mq>>
    /\ Recorded

\* a waiter that does not look at the case map again after the wait
HWaiterResumeNoRecheck(r) ==
    /\ RunsHandler(r) /\ req[r].h = "resume" /\ req[r].awaiting # r
    /\ IF promise[req[r].awaiting] = "rejected"
         THEN /\ req' = [req EXCEPT ![r].h = "done",
                            ![r].resp = [status |-> 500, caseId |-> "", roomJid |-> "",
                                         participants |-> <<>>, details |-> "message"]]
              /\ cur' = 0
              /\ UNCHANGED promise
         ELSE /\ req' = [req EXCEPT ![r].h = "calling", ![r].w = "start"]
              /\ promise' = [promise EXCEPT ![r] = "pending"]
              /\ cur' = r
    /\ UNCHANGED <<boot, users, cases, caseCreationLocks, reactions, mq>>
    /\ Recorded

\* a waiter that starts a creation of its own when the awaited one failed
HWaiterResumeRetries(r) ==
    /\ RunsHandler(r) /\ req[r].h = "resume" /\ req[r].awaiting # r
    /\ IF promise[req[r].awaiting] = "fulfilled" /\ CasesHas(req[r].caseId)
         THEN /\ req' = [req EXCEPT ![r].h = "done",
                            ![r].resp = ExistingCaseResponse(req[r].caseId)]
              /\ cur' = 0
              /\ UNCHANGED promise
         ELSE /\ req' = [req EXCEPT ![r].h = "calling", ![r].w = "start"]
              /\ promise' = [promise EXCEPT ![r] = "pending"]
              /\ cur' = r
    /\ UNCHANGED <<boot, users, cases, caseCreationLocks, reactions, mq>>
    /\ Recorded

\* lines 666-685 and 871-877: the awaited promise of another request settled
HWaiterResume(r) ==
    /\ RunsHandler(r) /\ req[r].h = "resume" /\ req[r].awaiting # r
    /\ LET p == req[r].awaiting
           c == req[r].caseId IN
        IF promise[p] = "rejected"
          THEN /\ req' = [req EXCEPT ![r].h = "done",
                             ![r].resp = [status |-> 500, caseId |-> "", roomJid |-> "",
                                          participants |-> <<>>, details |-> "message"]]
               /\ cur' = 0
               /\ UNCHANGED promise
          ELSE IF CasesHas(c)
            THEN /\ req' = [req EXCEPT ![r].h = "done",
                               ![r].resp = ExistingCaseResponse(c)]
                 /\ cur' = 0
                 /\ UNCHANGED promise
            ELSE \* line 682: falls through to the creation block
                 /\ req' = [req EXCEPT ![r].h = "calling", ![r].w = "start"]
                 /\ promise' = [promise EXCEPT ![r] = "pending"]
                 /\ cur' = r
    /\ UNCHANGED <<boot, users, cases, caseCreationLocks, reactions, mq>>
    /\ Recorded

\* ------------------------------------- POST /cases: the creationPromise block
\* the record is saved "early", before the first step
WfStartSavesEarly(r) ==
    /\ RunsWorkflow(r) /\ req[r].w = "start"
    /\ req' = IF req[r].iterable
                THEN [req EXCEPT ![r].w = "ensure", ![r].i = 1]
                ELSE [req EXCEPT ![r].w = "finally", ![r].err = EOther]
    /\ cases' = [cases EXCEPT ![req[r].caseId] =
                    [present |-> TRUE, caseId |-> req[r].caseId,
                     participants |-> req[r].parts]]
    /\ UNCHANGED <<boot, users, caseCreationLocks, promise, reactions, mq, cur>>
    /\ Recorded

\* lines 686-700: participants.length / for..of throw when the body's
\* participants is not an array
WfStart(r) ==
    /\ RunsWorkflow(r) /\ req[r].w = "start"
    /\ req' = IF req[r].iterable
                THEN [req EXCEPT ![r].w = "ensure", ![r].i = 1]
                ELSE [req EXCEPT ![r].w = "finally", ![r].err = EOther]
    /\ UNCHANGED <<boot, users, cases, caseCreationLocks, promise, reactions, mq, cur>>
    /\ Recorded

\* the loop over the participants is followed by the grants at once
WfEnsureDoneSkipsRoom(r) ==
    /\ RunsWorkflow(r) /\ req[r].kind = "create" /\ req[r].w = "ensure"
    /\ req[r].i > Len(req[r].parts)
    /\ req' = [req EXCEPT ![r].w = "grant", ![r].i = 1]
    /\ UNCHANGED <<boot, users, cases, caseCreationLocks, promise, reactions, mq, cur>>
    /\ Recorded

\* line 701 with no participant left: on to STEP 2
WfEnsureDone(r) ==
    /\ RunsWorkflow(r) /\ req[r].kind = "create" /\ req[r].w = "ensure"
    /\ req[r].i > Len(req[r].parts)
    /\ req' = [req EXCEPT ![r].w = "room"]
    /\ UNCHANGED <<boot, users, cases, caseCreationLocks, promise, reactions, mq, cur>>
    /\ Recorded

\* the cached identifier is returned after a user-creation call all the same
EnsureUserCachedStillCalls(r) ==
    /\ RunsWorkflow(r) /\ req[r].w = "ensure"
    /\ req[r].i <= Len(req[r].parts)
    /\ LET u == req[r].parts[req[r].i] IN
        /\ CacheHit(u)
        /\ req' = [req EXCEPT ![r] = AfterSuspend(
                      [@ EXCEPT !.w = "ensureRet", !.ret = users[u].xmppUsername,
                                !.calls = Append(@, createUserDirect(u,
                                             userData(req[r].profiles[req[r].i]),
                                             req[r].i))])]
    /\ mq' = Append(mq, Microtask(r, "wf"))
    /\ cur' = CurAfterSuspend(r)
    /\ UNCHANGED <<boot, users, cases, caseCreationLocks, promise, reactions>>
    /\ Recorded

\* lines 229-242: ensureUser answers from the cache; the caller's await
\* resumes in a microtask
EnsureUserCached(r) ==
    /\ RunsWorkflow(r) /\ req[r].w = "ensure"
    /\ req[r].i <= Len(req[r].parts)
    /\ LET u == req[r].parts[req[r].i] IN
        /\ CacheHit(u)
        /\ req' = [req EXCEPT ![r] = AfterSuspend(
                      [@ EXCEPT !.w = "ensureRet", !.ret = users[u].xmppUsername])]
    /\ mq' = Append(mq, Microtask(r, "wf"))
    /\ cur' = CurAfterSuspend(r)
    /\ UNCHANGED <<boot, users, cases, caseCreationLocks, promise, reactions>>
    /\ Recorded

\* another request has an unanswered user-creation call for u
CreationPending(r, u) ==
    \E q \in Requests :
        /\ q # r /\ req[q].w \in {"userWait1", "userWait2"}
        /\ req[q].parts[req[q].i] = u

\* ensureUser makes no call for a user another request is creating
EnsureUserCallLocked(r) ==
    /\ RunsWorkflow(r) /\ req[r].w = "ensure"
    /\ req[r].i <= Len(req[r].parts)
    /\ LET u == req[r].parts[req[r].i] IN
        /\ ~CacheHit(u)
        /\ IF CreationPending(r, u)
             THEN /\ req' = [req EXCEPT ![r] = AfterSuspend(
                                [@ EXCEPT !.w = "ensureRet", !.ret = u])]
                  /\ mq' = Append(mq, Microtask(r, "wf"))
             ELSE /\ req' = [req EXCEPT ![r] = AfterSuspend(
                                [@ EXCEPT !.w = "userWait1",
                                   !.calls = Append(@, createUserDirect(u,
                                                userData(req[r].profiles[req[r].i]),
                                                req[r].i))])]
                  /\ mq' = mq
    /\ cur' = CurAfterSuspend(r)
    /\ UNCHANGED <<boot, users, cases, caseCreationLocks, promise, reactions>>
    /\ Recorded

\* lines 244-287: ensureUser calls createUserDirect with the request's data
EnsureUserCall(r) ==
    /\ RunsWorkflow(r) /\ req[r].w = "ensure"
    /\ req[r].i <= Len(req[r].parts)
    /\ LET u == req[r].parts[req[r].i] IN
        /\ ~CacheHit(u)
        /\ req' = [req EXCEPT ![r] = AfterSuspend(
                      [@ EXCEPT !.w = "userWait1",
                                !.calls = Append(@, createUserDirect(u,
                                             userData(req[r].profiles[req[r].i]),
                                             req[r].i))])]
    /\ cur' = CurAfterSuspend(r)
    /\ UNCHANGED <<boot, users, cases, caseCreationLocks, promise, reactions, mq>>
    /\ Recorded

\* lines 148-149: createUserDirect throws before it reaches axios.post when
\* displayName is not a string; lines 557-560 rethrow the non-axios error
EnsureUserCallThrows(r) ==
    /\ RunsWorkflow(r) /\ req[r].w = "ensure"
    /\ req[r].i <= Len(req[r].parts)
    /\ ~CacheHit(req[r].parts[req[r].i])
    /\ req' = [req EXCEPT ![r] = AfterSuspend(
                  [@ EXCEPT !.w = "ensureRet", !.err = EOther])]
    /\ mq' = Append(mq, Microtask(r, "wf"))
    /\ cur' = CurAfterSuspend(r)
    /\ UNCHANGED <<boot, users, cases, caseCreationLocks, promise, reactions>>
    /\ Recorded

\* the external API answers the outstanding call of r
ExtResponse(r, out) ==
    /\ cur = 0 /\ mq = <<>>
    /\ \/ req[r].w = "userWait1" /\ out \in UserOutcomes
          /\ req' = [req EXCEPT ![r].w = "userResp1", ![r].out = out,
                        ![r].answered = @ + 1]
       \/ req[r].w = "userWait2" /\ out \in UserOutcomes
          /\ req' = [req EXCEPT ![r].w = "userResp2", ![r].out = out,
                        ![r].answered = @ + 1]
       \/ req[r].w = "roomWait" /\ out \in RoomOutcomes
          /\ req' = [req EXCEPT ![r].w = "roomResp", ![r].out = out,
                        ![r].answered = @ + 1]
       \/ req[r].w = "grantWait" /\ out \in GrantOutcomes
          /\ req' = [req EXCEPT ![r].w = "grantResp", ![r].out = out,
                        ![r].answered = @ + 1]
       \/ req[r].w = "delWait" /\ out \in DeleteOutcomes
          /\ req' = [req EXCEPT ![r].w = "delResp", ![r].out = out,
                        ![r].answered = @ + 1]
    /\ cur' = r
    /\ UNCHANGED <<boot, users, cases, caseCreationLocks, promise, reactions, mq>>
    /\ Recorded

\* lines 289-357 and 423-502: the call (first or retry) succeeded
EnsureUserCreated(r) ==
    /\ RunsWorkflow(r) /\ req[r].w \in {"userResp1", "userResp2"}
    /\ req[r].out.kind = "ok"
    /\ LET u == req[r].parts[req[r].i]
           x == XmppFromResponse(req[r].out, u) IN
        /\ users' = [users EXCEPT ![u] =
                        [present |-> TRUE, xmppUsername |-> x,
                         lastName |-> IF req[r].w = "userResp1"
                                        THEN req[r].profiles[req[r].i].lastName
                                        ELSE RandomData.lastName,
                         obj |-> <<0, 0>>]]
        /\ req' = [req EXCEPT ![r].w = "ensureRet", ![r].ret = x,
                      ![r].created = @ \cup {req[r].i}]
    /\ mq' = Append(mq, Microtask(r, "wf"))
    /\ cur' = 0
    /\ UNCHANGED <<boot, cases, caseCreationLocks, promise, reactions>>
    /\ Recorded

\* lines 368-402 and 512-547: 422 "already exist"; users.set(userId, user)
\* stores the request's own participant object when nothing usable is cached
EnsureUserExists(r) ==
    /\ RunsWorkflow(r) /\ req[r].w \in {"userResp1", "userResp2"}
    /\ IsAlreadyExists(req[r].out)
    /\ LET u == req[r].parts[req[r].i] IN
        IF CacheHit(u)
          THEN /\ req' = [req EXCEPT ![r].w = "ensureRet",
                             ![r].ret = users[u].xmppUsername,
                             ![r].conflicts = @ \cup {req[r].i}]
               /\ users' = users
          ELSE /\ req' = [req EXCEPT ![r].w = "ensureRet", ![r].ret = u,
                             ![r].conflicts = @ \cup {req[r].i}]
               /\ users' = [users EXCEPT ![u] =
                               [present |-> TRUE, xmppUsername |-> "",
                                lastName |-> req[r].profiles[req[r].i].lastName,
                                obj |-> <<r, req[r].i>>]]
    /\ mq' = Append(mq, Microtask(r, "wf"))
    /\ cur' = 0
    /\ UNCHANGED <<boot, cases, caseCreationLocks, promise, reactions>>
    /\ Recorded

\* participant.role as line 410 reads it
RoleRead(r) ==
    IF req[r].roles[req[r].i] = AnyRole THEN Roles ELSE {req[r].roles[req[r].i]}

\* lines 404-421: another axios error on the first call, retry with random data
EnsureUserRetry(r) ==
    /\ RunsWorkflow(r) /\ req[r].w = "userResp1"
    /\ req[r].out.kind = "axios" /\ ~IsAlreadyExists(req[r].out)
    /\ \E role \in RoleRead(r) :
          /\ generateRandomUserData(role) = "random"
          /\ req' = [req EXCEPT ![r].w = "userWait2", ![r].roles[req[r].i] = role,
                        ![r].calls = Append(@, createUserDirect(req[r].parts[req[r].i],
                                                    RandomData, req[r].i))]
    /\ cur' = 0
    /\ UNCHANGED <<boot, users, cases, caseCreationLocks, promise, reactions, mq>>
    /\ Recorded

\* line 410: generateRandomUserData throws inside the catch block, before the
\* retry call; ensureUser rejects with the TypeError
EnsureUserRetryThrows(r) ==
    /\ RunsWorkflow(r) /\ req[r].w = "userResp1"
    /\ req[r].out.kind = "axios" /\ ~IsAlreadyExists(req[r].out)
    /\ \E role \in RoleRead(r) :
          /\ generateRandomUserData(role) = "TypeError"
          /\ req' = [req EXCEPT ![r].w = "ensureRet", ![r].roles[req[r].i] = role,
                        ![r].err = EOther]
    /\ mq' = Append(mq, Microtask(r, "wf"))
    /\ cur' = 0
    /\ UNCHANGED <<boot, users, cases, caseCreationLocks, promise, reactions>>
    /\ Recorded

\* the retry's error is rethrown whatever it says
EnsureUserThrowsConflict(r) ==
    /\ RunsWorkflow(r) /\ req[r].w = "userResp2"
    /\ req[r].out.kind \in {"axios", "other"}
    /\ req' = [req EXCEPT ![r].w = "ensureRet", ![r].err = req[r].out]
    /\ mq' = Append(mq, Microtask(r, "wf"))
    /\ cur' = 0
    /\ UNCHANGED <<boot, users, cases, caseCreationLocks, promise, reactions>>
    /\ Recorded

\* lines 549-556: the retry failed with something else than the conflict
EnsureUserThrow(r) ==
    /\ RunsWorkflow(r) /\ req[r].w = "userResp2"
    /\ req[r].out.kind \in {"axios", "other"}
    /\ ~IsAlreadyExists(req[r].out)
    /\ req' = [req EXCEPT ![r].w = "ensureRet", ![r].err = req[r].out]
    /\ mq' = Append(mq, Microtask(r, "wf"))
    /\ cur' = 0
    /\ UNCHANGED <<boot, users, cases, caseCreationLocks, promise, reactions>>
    /\ Recorded

\* lines 702-711: `await ensureUser(participant)` resumes; line 710 writes
\* participant.xmppUsername, also seen through the cache when the cache holds
\* this very object
WfEnsureRet(r) ==
    /\ RunsWorkflow(r) /\ req[r].kind = "create" /\ req[r].w = "ensureRet"
    /\ LET u == req[r].parts[req[r].i] IN
        IF req[r].err # NoErr
          THEN /\ req' = [req EXCEPT ![r].w = "finally", ![r].ret = "",
                             ![r].out = NoErr]
               /\ users' = users
          ELSE /\ req' = [req EXCEPT ![r].w = "ensure", ![r].i = @ + 1,
                             ![r].xmpp = Append(@, req[r].ret),
                             ![r].ret = "", ![r].out = NoErr]
               /\ users' = IF users[u].obj = <<r, req[r].i>>
                             THEN [users EXCEPT ![u].xmppUsername = req[r].ret]
                             ELSE users
    /\ UNCHANGED <<boot, cases, caseCreationLocks, promise, reactions, mq, cur>>
    /\ Recorded

\* lines 716-723: STEP 2, chatRepo.createChatRoom
WfRoomCall(r) ==
    /\ RunsWorkflow(r) /\ req[r].w = "room"
    /\ req' = [req EXCEPT ![r] = AfterSuspend(
                  [@ EXCEPT !.w = "roomWait",
                            !.calls = Append(@, Call("room", req[r].caseId, 0))])]
    /\ cur' = CurAfterSuspend(r)
    /\ UNCHANGED <<boot, users, cases, caseCreationLocks, promise, reactions, mq>>
    /\ Recorded

\* every 422 is taken for "already exists"
RoomAlreadyExistsAny422(e) == e.kind = "axios" /\ e.status = 422

\* lines 727-737: the room-creation error that is tolerated
RoomAlreadyExists(e) ==
    e.kind = "axios" /\ e.status = 422 /\ IncludesAlreadyExist(e.body)

\* lines 724-752: room created or already there, else rethrow
WfRoomResp(r) ==
    /\ RunsWorkflow(r) /\ req[r].w = "roomResp"
    /\ req' = IF req[r].out.kind = "ok" \/ RoomAlreadyExists(req[r].out)
                THEN [req EXCEPT ![r].w = "grant", ![r].i = 1]
                ELSE [req EXCEPT ![r].w = "finally", ![r].err = req[r].out]
    /\ UNCHANGED <<boot, users, cases, caseCreationLocks, promise, reactions, mq, cur>>
    /\ Recorded

\* lines 761-765: STEP 3, grantAccessDirect for the next participant
WfGrantCall(r) ==
    /\ RunsWorkflow(r) /\ req[r].w = "grant"
    /\ req[r].i <= Len(req[r].parts)
    /\ req' = [req EXCEPT ![r].w = "grantWait",
                  ![r].calls = Append(@, grantAccessDirect(req[r].caseId,
                                              req[r].parts[req[r].i], req[r].i))]
    /\ cur' = 0
    /\ UNCHANGED <<boot, users, cases, caseCreationLocks, promise, reactions, mq>>
    /\ Recorded

\* a failed grant is rethrown
WfGrantRespAborts(r) ==
    /\ RunsWorkflow(r) /\ req[r].kind = "create" /\ req[r].w = "grantResp"
    /\ req' = IF req[r].out.kind = "ok"
                THEN [req EXCEPT ![r].w = "grant", ![r].i = @ + 1]
                ELSE [req EXCEPT ![r].w = "finally", ![r].err = req[r].out,
                         ![r].gfail = @ \cup {req[r].i}]
    /\ UNCHANGED <<boot, users, cases, caseCreationLocks, promise, reactions, mq, cur>>
    /\ Recorded

\* lines 766-796: granted, or the failure is logged and skipped
WfGrantResp(r) ==
    /\ RunsWorkflow(r) /\ req[r].kind = "create" /\ req[r].w = "grantResp"
    /\ req' = [req EXCEPT ![r].w = "grant", ![r].i = @ + 1,
                  ![r].gfail = IF req[r].out.kind = "ok" THEN @ ELSE @ \cup {req[r].i}]
    /\ UNCHANGED <<boot, users, cases, caseCreationLocks, promise, reactions, mq, cur>>
    /\ Recorded

\* cases.set placed before the grant loop
WfCommitBeforeGrants(r) ==
    /\ RunsWorkflow(r) /\ req[r].w = "grant"
    /\ \/ /\ req[r].i = 1 /\ ~cases[req[r].caseId].present
          /\ req' = req
       \/ /\ req[r].i > Len(req[r].parts)
          /\ req' = [req EXCEPT ![r].w = "finally", ![r].out = NoErr]
    /\ cases' = [cases EXCEPT ![req[r].caseId] =
                    [present |-> TRUE, caseId |-> req[r].caseId,
                     participants |-> req[r].parts]]
    /\ UNCHANGED <<boot, users, caseCreationLocks, promise, reactions, mq, cur>>
    /\ Recorded

\* the result is returned without cases.set
WfCommitForgets(r) ==
    /\ RunsWorkflow(r) /\ req[r].w = "grant"
    /\ req[r].i > Len(req[r].parts)
    /\ req' = [req EXCEPT ![r].w = "finally", ![r].out = NoErr]
    /\ UNCHANGED <<boot, users, cases, caseCreationLocks, promise, reactions, mq, cur>>
    /\ Recorded

\* lines 812-817: cases.set
WfCommit(r) ==
    /\ RunsWorkflow(r) /\ req[r].w = "grant"
    /\ req[r].i > Len(req[r].parts)
    /\ cases' = [cases EXCEPT ![req[r].caseId] =
                    [present |-> TRUE, caseId |-> req[r].caseId,
                     participants |-> req[r].parts]]
    /\ req' = [req EXCEPT ![r].w = "finally", ![r].out = NoErr]
    /\ UNCHANGED <<boot, users, caseCreationLocks, promise, reactions, mq, cur>>
    /\ Recorded

\* a finally block that leaves the marker in the map
WfFinallyKeepsLock(r) ==
    /\ RunsWorkflow(r) /\ req[r].w = "finally"
    /\ promise' = [promise EXCEPT ![r] =
                      IF req[r].err = NoErr THEN "fulfilled" ELSE "rejected"]
    /\ mq' = mq \o HandlerTasks(reactions[r])
    /\ reactions' = [reactions EXCEPT ![r] = <<>>]
    /\ req' = [req EXCEPT ![r] = AfterSuspend([@ EXCEPT !.w = "settled", !.out = NoErr])]
    /\ cur' = CurAfterSuspend(r)
    /\ UNCHANGED <<boot, users, cases, caseCreationLocks>>
    /\ Recorded

\* lines 826-831: finally deletes the marker, then the promise settles and
\* its awaiters are queued in the order they started to wait
WfFinally(r) ==
    /\ RunsWorkflow(r) /\ req[r].w = "finally"
    /\ caseCreationLocks' = [caseCreationLocks EXCEPT ![req[r].caseId] = 0]
    /\ promise' = [promise EXCEPT ![r] =
                      IF req[r].err = NoErr THEN "fulfilled" ELSE "rejected"]
    /\ mq' = mq \o HandlerTasks(reactions[r])
    /\ reactions' = [reactions EXCEPT ![r] = <<>>]
    /\ req' = [req EXCEPT ![r] = AfterSuspend([@ EXCEPT !.w = "settled", !.out = NoErr])]
    /\ cur' = CurAfterSuspend(r)
    /\ UNCHANGED <<boot, users, cases>>
    /\ Recorded

\* ------------------------------------------------ POST /cases/:caseId/users
\* the body of an add-participant request; "" stands for a missing field
AddBodies ==
    [userId : UserIds \cup {""}, role : Roles \cup {""},
     firstName : FirstNames, lastName : LastNames, displayName : DisplayNames]
\* the bodies that carry userId and role only
PlainAddBodies ==
    {b \in AddBodies : b.firstName = "" /\ b.lastName = "" /\ b.displayName = ""}

AddArrival(c, b) ==
    [NewReq EXCEPT !.kind = "add", !.caseId = c,
                   !.parts = IF b.userId = "" \/ b.role = "" THEN <<>> ELSE <<b.userId>>,
                   !.roles = IF b.userId = "" \/ b.role = "" THEN <<>> ELSE <<b.role>>,
                   !.profiles = IF b.userId = "" \/ b.role = "" THEN <<>>
                                ELSE <<[firstName |-> b.firstName, lastName |-> b.lastName,
                                        displayName |-> b.displayName]>>,
                   !.seen = Answered]

AddAdmissible(c, b) ==
    /\ CanonicalCase(c)
    /\ CanonicalParts(AddArrival(c, b).parts)
    /\ Len(AddArrival(c, b).parts) + Submitted(MaxRequests) <= MaxParts

\* Array.prototype.includes on the participant list
Includes(list, u) == \E k \in 1..Len(list) : list[k] = u

AddResponse(status) ==
    [status |-> status, caseId |-> "", roomJid |-> "", participants |-> <<>>,
     details |-> ""]

\* the handler goes on to ensureUser although the case is unknown
AddNotFoundProceeds(r, c, b) ==
    /\ Serving /\ cur = 0 /\ mq = <<>> /\ Fresh(r) /\ AddAdmissible(c, b)
    /\ ~CasesHas(c)
    /\ b.userId # "" /\ b.role # ""
    /\ req' = [req EXCEPT ![r] = [AddArrival(c, b) EXCEPT !.h = "add",
                  !.w = "ensure", !.i = 1]]
    /\ cur' = r
    /\ UNCHANGED <<boot, users, cases, caseCreationLocks, promise, reactions, mq>>
    /\ Recorded

\* lines 888-890: the case is unknown
AddNotFound(r, c, b) ==
    /\ Serving /\ cur = 0 /\ mq = <<>> /\ Fresh(r) /\ AddAdmissible(c, b)
    /\ ~CasesHas(c)
    /\ req' = [req EXCEPT ![r] = [AddArrival(c, b) EXCEPT !.h = "done",
                  !.resp = AddResponse(404)]]
    /\ UNCHANGED <<boot, users, cases, caseCreationLocks, promise, reactions, mq, cur>>
    /\ Recorded

\* lines 891-893: userId or role is missing
AddBadRequest(r, c, b) ==
    /\ Serving /\ cur = 0 /\ mq = <<>> /\ Fresh(r) /\ AddAdmissible(c, b)
    /\ CasesHas(c)
    /\ b.userId = "" \/ b.role = ""
    /\ req' = [req EXCEPT ![r] = [AddArrival(c, b) EXCEPT !.h = "done",
                  !.resp = AddResponse(400)]]
    /\ UNCHANGED <<boot, users, cases, caseCreationLocks, promise, reactions, mq, cur>>
    /\ Recorded

\* line 895: the handler calls ensureUser(participant)
AddStart(r, c, b) ==
    /\ Serving /\ cur = 0 /\ mq = <<>> /\ Fresh(r) /\ AddAdmissible(c, b)
    /\ CasesHas(c)
    /\ b.userId # "" /\ b.role # ""
    /\ req' = [req EXCEPT ![r] = [AddArrival(c, b) EXCEPT !.h = "add",
                  !.w = "ensure", !.i = 1]]
    /\ cur' = r
    /\ UNCHANGED <<boot, users, cases, caseCreationLocks, promise, reactions, mq>>
    /\ Recorded

\* the handler goes on to grantAccess although ensureUser rejected
AddEnsureRetIgnoresError(r) ==
    /\ RunsWorkflow(r) /\ req[r].kind = "add" /\ req[r].w = "ensureRet"
    /\ req' = [req EXCEPT ![r].w = "grantWait",
                  ![r].xmpp = Append(@, req[r].ret),
                  ![r].ret = "", ![r].out = NoErr,
                  ![r].calls = Append(@, grantAccessDirect(req[r].caseId,
                                              req[r].parts[1], 1))]
    /\ cur' = 0
    /\ UNCHANGED <<boot, users, cases, caseCreationLocks, promise, reactions, mq>>
    /\ Recorded

\* lines 895-899 and 914-920: `await ensureUser(participant)` resumes, then
\* grantAccess(caseId, participant.userId); a rejection is answered with 500
AddEnsureRet(r) ==
    /\ RunsWorkflow(r) /\ req[r].kind = "add" /\ req[r].w = "ensureRet"
    /\ req' = IF req[r].err # NoErr
                THEN [req EXCEPT ![r].w = "settled", ![r].h = "done", ![r].ret = "",
                         ![r].out = NoErr, ![r].resp = AddResponse(500)]
                ELSE [req EXCEPT ![r].w = "grantWait",
                         ![r].xmpp = Append(@, req[r].ret),
                         ![r].ret = "", ![r].out = NoErr,
                         ![r].calls = Append(@, grantAccessDirect(req[r].caseId,
                                                     req[r].parts[1], 1))]
    /\ cur' = 0
    /\ UNCHANGED <<boot, users, cases, caseCreationLocks, promise, reactions, mq>>
    /\ Recorded

\* the participant is pushed without looking for it in the list
AddGrantRespPushesAlways(r) ==
    /\ RunsWorkflow(r) /\ req[r].kind = "add" /\ req[r].w = "grantResp"
    /\ LET c == req[r].caseId
           u == req[r].parts[1] IN
        cases' = [cases EXCEPT ![c].participants = Append(@, u)]
    /\ req' = [req EXCEPT ![r].w = "settled", ![r].h = "done", ![r].out = NoErr,
                  ![r].resp = AddResponse(200)]
    /\ cur' = 0
    /\ UNCHANGED <<boot, users, caseCreationLocks, promise, reactions, mq>>
    /\ Recorded

\* lines 569-616 and 901-913: grantAccess swallows every error; the
\* participant is pushed unless the list includes it; res.json
AddGrantResp(r) ==
    /\ RunsWorkflow(r) /\ req[r].kind = "add" /\ req[r].w = "grantResp"
    /\ LET c == req[r].caseId
           u == req[r].parts[1] IN
        cases' = IF Includes(cases[c].participants, u)
                   THEN cases
                   ELSE [cases EXCEPT ![c].participants = Append(@, u)]
    /\ req' = [req EXCEPT ![r].w = "settled", ![r].h = "done", ![r].out = NoErr,
                  ![r].resp = AddResponse(200)]
    /\ cur' = 0
    /\ UNCHANGED <<boot, users, caseCreationLocks, promise, reactions, mq>>
    /\ Recorded

\* ------------------------------------------------ DELETE /cases/:caseId/chat
\* lines 964-967: chatRepo.deleteChatRoom(caseId), which names the room by
\* its short name
DeleteChat(r, c) ==
    /\ Serving /\ cur = 0 /\ mq = <<>> /\ Fresh(r) /\ CanonicalCase(c)
    /\ req' = [req EXCEPT ![r] = [NewReq EXCEPT !.kind = "delchat", !.caseId = c,
                  !.h = "del", !.w = "delWait", !.seen = Answered,
                  !.calls = <<Call("delroom", createChatName(c, FALSE), 0)>>]]
    /\ UNCHANGED <<boot, users, cases, caseCreationLocks, promise, reactions, mq, cur>>
    /\ Recorded

\* the local record is purged together with the room
DeleteChatRespPurges(r) ==
    /\ RunsWorkflow(r) /\ req[r].kind = "delchat" /\ req[r].w = "delResp"
    /\ LET res == deleteChatRoom(req[r].out) IN
        /\ req' = [req EXCEPT ![r].w = "settled", ![r].h = "done", ![r].result = res,
                      ![r].resp = AddResponse(IF res = Thrown THEN 500 ELSE 200)]
        /\ cases' = IF res = Thrown THEN cases
                     ELSE [cases EXCEPT ![req[r].caseId] = NoCase]
    /\ cur' = 0
    /\ UNCHANGED <<boot, users, caseCreationLocks, promise, reactions, mq>>
    /\ Recorded

\* lines 967-972: the result is sent, a thrown error is answered with 500;
\* the case map is not touched
DeleteChatResp(r) ==
    /\ RunsWorkflow(r) /\ req[r].kind = "delchat" /\ req[r].w = "delResp"
    /\ LET res == deleteChatRoom(req[r].out) IN
        req' = [req EXCEPT ![r].w = "settled", ![r].h = "done", ![r].result = res,
                   ![r].resp = AddResponse(IF res = Thrown THEN 500 ELSE 200)]
    /\ cur' = 0
    /\ UNCHANGED <<boot, users, cases, caseCreationLocks, promise, reactions, mq>>
    /\ Recorded

\* ------------------------------------------------------------ DELETE /users
\* request bodies: userIds is an array, or not an array at all
DelBodies ==
    {[parts |-> ps, iterable |-> TRUE] : ps \in BoundedSeq(UserIds, MaxParts)}
        \cup {[parts |-> <<>>, iterable |-> FALSE]}

\* lines 980-985: userIds must be a non-empty array
DeleteUsersBadRequest(r, ps, it) ==
    /\ Serving /\ cur = 0 /\ mq = <<>> /\ Fresh(r) /\ Admissible("c1", ps)
    /\ ~it \/ ps = <<>>
    /\ req' = [req EXCEPT ![r] = [NewReq EXCEPT !.kind = "delusers", !.parts = ps,
                  !.iterable = it, !.h = "done", !.seen = Answered,
                  !.resp = AddResponse(400)]]
    /\ UNCHANGED <<boot, users, cases, caseCreationLocks, promise, reactions, mq, cur>>
    /\ Recorded

\* line 987: chatRepo.deleteUsers(userIds)
DeleteUsersCall(r, ps, it) ==
    /\ Serving /\ cur = 0 /\ mq = <<>> /\ Fresh(r) /\ Admissible("c1", ps)
    /\ it /\ ps # <<>>
    /\ req' = [req EXCEPT ![r] = [NewReq EXCEPT !.kind = "delusers", !.parts = ps,
                  !.h = "del", !.w = "delWait", !.seen = Answered,
                  !.calls = <<Call("delusers", ps[1], 0)>>]]
    /\ UNCHANGED <<boot, users, cases, caseCreationLocks, promise, reactions, mq, cur>>
    /\ Recorded

\* lines 987-996: unless the call threw, the users leave the cache
DeleteUsersResp(r) ==
    /\ RunsWorkflow(r) /\ req[r].kind = "delusers" /\ req[r].w = "delResp"
    /\ LET res == deleteUsers(req[r].out) IN
        /\ req' = [req EXCEPT ![r].w = "settled", ![r].h = "done", ![r].result = res,
                      ![r].resp = AddResponse(IF res = Thrown THEN 500 ELSE 200)]
        /\ users' = IF res = Thrown THEN users
                     ELSE [u \in UserIds |->
                             IF Includes(req[r].parts, u) THEN NoUser ELSE users[u]]
    /\ cur' = 0
    /\ UNCHANGED <<boot, cases, caseCreationLocks, promise, reactions, mq>>
    /\ Recorded

\* ------------------------------------------------- GET /chat/token/:userId
\* the user's cache entry goes with the token
GetTokenEvicts(r, u) ==
    /\ Serving /\ cur = 0 /\ mq = <<>> /\ Fresh(r) /\ Admissible("c1", <<u>>)
    /\ req' = [req EXCEPT ![r] = [NewReq EXCEPT !.kind = "token", !.parts = <<u>>,
                  !.h = "done", !.seen = Answered, !.token = u,
                  !.resp = AddResponse(200)]]
    /\ users' = [users EXCEPT ![u] = NoUser]
    /\ UNCHANGED <<boot, cases, caseCreationLocks, promise, reactions, mq, cur>>
    /\ Recorded

\* lines 928-937: createClientToken(userId) with the userId of the URL; the
\* participant cache is not read
GetToken(r, u) ==
    /\ Serving /\ cur = 0 /\ mq = <<>> /\ Fresh(r) /\ Admissible("c1", <<u>>)
    /\ req' = [req EXCEPT ![r] = [NewReq EXCEPT !.kind = "token", !.parts = <<u>>,
                  !.h = "done", !.seen = Answered, !.token = u,
                  !.resp = AddResponse(200)]]
    /\ UNCHANGED <<boot, users, cases, caseCreationLocks, promise, reactions, mq, cur>>
    /\ Recorded

\* -------------------------------------------------------------- the system
Next ==
    \/ StartupGetSecrets
    \/ StartupListen
    \/ \E r \in Requests, c \in CaseIds, b \in Bodies :
          \/ PostCasesExisting(r, c, b.parts, b.roles, b.iterable)
          \/ PostCasesWait(r, c, b.parts, b.roles, b.iterable)
          \/ PostCasesStart(r, c, b.parts, b.roles, b.iterable)
    \/ \E r \in Requests, c \in CaseIds, b \in PlainAddBodies :
          \/ AddNotFound(r, c, b)
          \/ AddBadRequest(r, c, b)
          \/ AddStart(r, c, b)
    \/ \E r \in Requests, c \in CaseIds : DeleteChat(r, c)
    \/ \E r \in Requests, u \in UserIds : GetToken(r, u)
    \/ \E r \in Requests, b \in DelBodies :
          \/ DeleteUsersBadRequest(r, b.parts, b.iterable)
          \/ DeleteUsersCall(r, b.parts, b.iterable)
    \/ RunMicrotask
    \/ \E r \in Requests :
          \/ AddEnsureRet(r) \/ AddGrantResp(r)
          \/ DeleteChatResp(r) \/ DeleteUsersResp(r)
          \/ HSetLock(r) \/ HOwnResult(r) \/ HOwnCatch(r) \/ HWaiterResume(r)
          \/ WfStart(r) \/ WfEnsureDone(r)
          \/ EnsureUserCached(r) \/ EnsureUserCall(r) \/ EnsureUserCallThrows(r)
          \/ EnsureUserCreated(r) \/ EnsureUserExists(r)
          \/ EnsureUserRetry(r) \/ EnsureUserRetryThrows(r) \/ EnsureUserThrow(r)
          \/ WfEnsureRet(r) \/ WfRoomCall(r) \/ WfRoomResp(r)
          \/ WfGrantCall(r) \/ WfGrantResp(r) \/ WfCommit(r) \/ WfFinally(r)
    \/ \E r \in Requests,
          out \in UserOutcomes \cup RoomOutcomes \cup GrantOutcomes \cup DeleteOutcomes :
          ExtResponse(r, out)

Spec == Init /\ [][Next]_vars

\* ------------------------------------------------- one request at a time
\* the server with a client that waits for each answer before it sends the
\* next request: every route, from start-up on
NextSerial ==
    \/ StartupGetSecrets
    \/ StartupListen
    \/ \E r \in Requests, c \in CaseIds, b \in Bodies :
          Idle /\ PostCasesExisting(r, c, b.parts, b.roles, b.iterable)
    \/ \E r \in Requests, c \in CaseIds, b \in Bodies :
          Idle /\ PostCasesStart(r, c, b.parts, b.roles, b.iterable)
    \/ \E r \in Requests, c \in CaseIds, b \in PlainAddBodies :
          Idle /\ AddNotFound(r, c, b)
    \/ \E r \in Requests, c \in CaseIds, b \in PlainAddBodies :
          Idle /\ AddBadRequest(r, c, b)
    \/ \E r \in Requests, c \in CaseIds, b \in PlainAddBodies :
          Idle /\ AddStart(r, c, b)
    \/ \E r \in Requests, c \in CaseIds : Idle /\ DeleteChat(r, c)
    \/ \E r \in Requests, u \in UserIds : Idle /\ GetToken(r, u)
    \/ \E r \in Requests, b \in DelBodies :
          Idle /\ DeleteUsersBadRequest(r, b.parts, b.iterable)
    \/ \E r \in Requests, b \in DelBodies :
          Idle /\ DeleteUsersCall(r, b.parts, b.iterable)
    \/ RunMicrotask
    \/ \E r \in Requests :
          \/ AddEnsureRet(r) \/ AddGrantResp(r)
          \/ DeleteChatResp(r) \/ DeleteUsersResp(r)
          \/ HSetLock(r) \/ HOwnResult(r) \/ HOwnCatch(r)
          \/ WfStart(r) \/ WfEnsureDone(r)
          \/ EnsureUserCached(r) \/ EnsureUserCall(r) \/ EnsureUserCallThrows(r)
          \/ EnsureUserCreated(r) \/ EnsureUserExists(r)
          \/ EnsureUserRetry(r) \/ EnsureUserRetryThrows(r) \/ EnsureUserThrow(r)
          \/ WfEnsureRet(r) \/ WfRoomCall(r) \/ WfRoomResp(r)
          \/ WfGrantCall(r) \/ WfGrantResp(r) \/ WfCommit(r) \/ WfFinally(r)
    \/ \E r \in Requests,
          out \in UserOutcomes \cup RoomOutcomes \cup GrantOutcomes \cup DeleteOutcomes :
          ExtResponse(r, out)

SpecSerial == Init /\ [][NextSerial]_vars

\* ------------------------------------------- adding to an existing case only
\* the server after one successful POST /cases for "c1", with no participant
\* or with "u1", whose identifier is cached as the external API returned it
InitAdd ==
    /\ boot = [phase |-> "listening",
               env |-> [v \in {"ETHORA_CHAT_API_URL", "ETHORA_CHAT_APP_ID",
                                "ETHORA_CHAT_APP_SECRET"} |-> "set"]]
    /\ \E ps \in {<<>>, <<"u1">>} : \E x \in {"u1", AppId \o "_" \o "u1"} :
          /\ cases = [c \in CaseIds |->
                        IF c = "c1" THEN [present |-> TRUE, caseId |-> c, participants |-> ps]
                                    ELSE NoCase]
          /\ users = [u \in UserIds |->
                        IF Includes(ps, u)
                          THEN [present |-> TRUE, xmppUsername |-> x, lastName |-> "",
                                obj |-> <<0, 0>>]
                          ELSE NoUser]
    /\ caseCreationLocks = [c \in CaseIds |-> 0]
    /\ req = [r \in Requests |-> NewReq]
    /\ promise = [r \in Requests |-> "none"]
    /\ reactions = [r \in Requests |-> <<>>]
    /\ mq = <<>>
    /\ cur = 0
    /\ prev = Now

\* the add-participant requests, their ensureUser and grantAccess calls
NextAdd ==
    \/ \E r \in Requests, c \in CaseIds, b \in PlainAddBodies :
          \/ AddNotFound(r, c, b)
          \/ AddBadRequest(r, c, b)
          \/ AddStart(r, c, b)
    \/ RunMicrotask
    \/ \E r \in Requests :
          \/ AddEnsureRet(r) \/ AddGrantResp(r)
          \/ EnsureUserCached(r) \/ EnsureUserCall(r) \/ EnsureUserCallThrows(r)
          \/ EnsureUserCreated(r) \/ EnsureUserExists(r)
          \/ EnsureUserRetry(r) \/ EnsureUserRetryThrows(r) \/ EnsureUserThrow(r)
    \/ \E r \in Requests, out \in UserOutcomes \cup GrantOutcomes :
          ExtResponse(r, out)

SpecAdd == InitAdd /\ [][NextAdd]_vars

\* ------------------------------------- participants that come with their names
\* the add-participant requests whose bodies carry firstName, lastName and
\* displayName, made one at a time, with their ensureUser and grantAccess calls
ProfileBodies == {b \in AddBodies : b.userId = "u1" /\ b.role = "patient"}

NextProfile ==
    \/ \E r \in Requests, c \in CaseIds, b \in ProfileBodies :
          Idle /\ AddNotFound(r, c, b)
    \/ \E r \in Requests, c \in CaseIds, b \in ProfileBodies :
          Idle /\ AddStart(r, c, b)
    \/ RunMicrotask
    \/ \E r \in Requests :
          \/ AddEnsureRet(r) \/ AddGrantResp(r)
          \/ EnsureUserCached(r) \/ EnsureUserCall(r) \/ EnsureUserCallThrows(r)
          \/ EnsureUserCreated(r) \/ EnsureUserExists(r)
          \/ EnsureUserRetry(r) \/ EnsureUserThrow(r)
    \/ \E r \in Requests, out \in UserOutcomes \cup GrantOutcomes :
          ExtResponse(r, out)

SpecProfile == InitAdd /\ [][NextProfile]_vars

\* ------------------------------------------------ GET /cases/:caseId/chat/jid
\* workspace ids as a URL may carry them: plain ones, and ids that hold an
\* "@", the separator, the application id or the JID domain itself
IdPieces == {"", "c1", "case-1", "@", "_", "app", ETHORA_JID_DOMAIN}
WorkspaceIds == {p \o q : p \in IdPieces, q \in IdPieces}

\* lines 950-954: the full JID of the case's room
GetJid(r, w) ==
    /\ Serving /\ cur = 0 /\ mq = <<>> /\ Fresh(r)
    /\ req' = [req EXCEPT ![r] = [NewReq EXCEPT !.kind = "jid", !.caseId = w,
                  !.h = "done", !.seen = Answered,
                  !.resp = [status |-> 200, caseId |-> w,
                            roomJid |-> createChatName(w, TRUE),
                            participants |-> <<>>, details |-> ""]]]
    /\ UNCHANGED <<boot, users, cases, caseCreationLocks, promise, reactions, mq, cur>>
    /\ Recorded

\* the server is listening and nothing has been asked yet
InitNames ==
    /\ boot = [phase |-> "listening",
               env |-> [v \in {"ETHORA_CHAT_API_URL", "ETHORA_CHAT_APP_ID",
                                "ETHORA_CHAT_APP_SECRET"} |-> "set"]]
    /\ users = [u \in UserIds |-> NoUser]
    /\ cases = [c \in CaseIds |-> NoCase]
    /\ caseCreationLocks = [c \in CaseIds |-> 0]
    /\ req = [r \in Requests |-> NewReq]
    /\ promise = [r \in Requests |-> "none"]
    /\ reactions = [r \in Requests |-> <<>>]
    /\ mq = <<>>
    /\ cur = 0
    /\ prev = Now

NextNames == \E r \in Requests, w \in WorkspaceIds : GetJid(r, w)

SpecNames == InitNames /\ [][NextNames]_vars

\* ------------------------------------------------ POST /cases under fairness
\* what the event loop and the external API do without a new request: run
\* the code on the stack, take the next microtask, answer an outstanding call
Progress ==
    \/ RunMicrotask
    \/ \E r \in Requests :
          \/ HSetLock(r) \/ HOwnResult(r) \/ HOwnCatch(r) \/ HWaiterResume(r)
          \/ WfStart(r) \/ WfEnsureDone(r)
          \/ EnsureUserCached(r) \/ EnsureUserCall(r) \/ EnsureUserCallThrows(r)
          \/ EnsureUserCreated(r) \/ EnsureUserExists(r)
          \/ EnsureUserRetry(r) \/ EnsureUserRetryThrows(r) \/ EnsureUserThrow(r)
          \/ WfEnsureRet(r) \/ WfRoomCall(r) \/ WfRoomResp(r)
          \/ WfGrantCall(r) \/ WfGrantResp(r) \/ WfCommit(r) \/ WfFinally(r)
    \/ \E r \in Requests, out \in UserOutcomes \cup RoomOutcomes \cup GrantOutcomes :
          ExtResponse(r, out)

\* the POST /cases requests of a listening server
NextLive ==
    \/ \E r \in Requests, c \in CaseIds, b \in Bodies :
          \/ PostCasesExisting(r, c, b.parts, b.roles, b.iterable)
          \/ PostCasesWait(r, c, b.parts, b.roles, b.iterable)
          \/ PostCasesStart(r, c, b.parts, b.roles, b.iterable)
    \/ Progress

\* the event loop never stops while it has something to run, and every
\* external call is answered in the end
SpecLive == InitNames /\ [][NextLive]_vars /\ WF_vars(Progress)

\* ================================================================ properties
UserCalls(r) == SelectSeq(req[r].calls, LAMBDA x : x.kind = "user")
RoomCalls(r) == SelectSeq(req[r].calls, LAMBDA x : x.kind = "room")
GrantCalls(r) == SelectSeq(req[r].calls, LAMBDA x : x.kind = "grant")

SameCase(r1, r2) ==
    req[r1].kind = "create" /\ req[r2].kind = "create" /\ req[r1].caseId = req[r2].caseId

\* r2 arrived after r1 and before r1 was answered
Concurrent(r1, r2) == r1 < r2 /\ SameCase(r1, r2) /\ r1 \notin req[r2].seen

\* r2 arrived after r1 had been answered
Sequential(r1, r2) == r1 < r2 /\ SameCase(r1, r2) /\ r1 \in req[r2].seen

\* r is the first request of the run for its caseId
FirstForCase(r) == \A q \in Requests : q < r => ~SameCase(q, r)

Done(r) == req[r].h = "done"

\* the workflow of r failed in STEP 1: it threw before any room-creation call
EnsureFailed(r) ==
    /\ req[r].err # NoErr
    /\ \/ req[r].calls = <<>>
       \/ req[r].calls[Len(req[r].calls)].kind = "user"

\* the participants for which ensureUser returned to the workflow of r
ResolvedBy(r) == {req[r].parts[k] : k \in 1..Len(req[r].xmpp)}

RoomJidOf(c) == AppId \o "_" \o c \o "@conference.xmpp.ethoradev.com"

\* the list begins with the given entries, in the same order
StartsWith(list, ps) == Len(list) >= Len(ps) /\ SubSeq(list, 1, Len(ps)) = ps

\* C1: at any moment at most one creation workflow is in flight for a caseId,
\* whatever the interleaving of POST /cases requests and external responses.
C1_OneWorkflowPerCase ==
    \A r1 \in Requests : \A r2 \in Requests :
        (r1 # r2 /\ InFlight(r1) /\ InFlight(r2)) => req[r1].caseId # req[r2].caseId

\* a second request for the same case arrived while the first workflow waits
\* for the external API, and it is parked on the marker
C1_Witness ==
    \E r1 \in Requests : \E r2 \in Requests :
        /\ Concurrent(r1, r2)
        /\ req[r1].w \in {"userWait1", "roomWait", "grantWait"}
        /\ req[r2].h = "awaitLock" /\ req[r2].w = "none"

\* C2 as stated: two concurrent createCase requests for the same unseen
\* caseId make exactly one external room-creation call in total.
C2_ExactlyOneRoomCall ==
    \A r1 \in Requests : \A r2 \in Requests :
        (Concurrent(r1, r2) /\ FirstForCase(r1) /\ Done(r1) /\ Done(r2))
            => Len(RoomCalls(r1)) + Len(RoomCalls(r2)) = 1

\* C2 amended: the two requests make at most one room-creation call in
\* total; the second request makes none, and the first makes exactly one
\* unless its workflow failed in the ensure-user step, in which case none.
C2_AtMostOneRoomCall ==
    \A r1 \in Requests : \A r2 \in Requests :
        (Concurrent(r1, r2) /\ FirstForCase(r1) /\ Done(r1) /\ Done(r2))
            => /\ Len(RoomCalls(r2)) = 0
               /\ Len(RoomCalls(r1)) = IF EnsureFailed(r1) THEN 0 ELSE 1

\* both concurrent requests are answered and one room-creation call was made
C2_Witness ==
    \E r1 \in Requests : \E r2 \in Requests :
        /\ Concurrent(r1, r2) /\ FirstForCase(r1) /\ Done(r1) /\ Done(r2)
        /\ Len(RoomCalls(r1)) + Len(RoomCalls(r2)) = 1
        /\ req[r1].resp.status = 200 /\ req[r2].resp.status = 200

\* C3: the second of two near-simultaneous createCase requests for the same
\* unseen caseId observes the marker and waits for the in-flight workflow, it
\* issues no external call itself, and once the first workflow has committed
\* it returns the committed case.
C3_SecondWaits ==
    \A r1 \in Requests : \A r2 \in Requests :
        (Concurrent(r1, r2) /\ FirstForCase(r1)) =>
            /\ req[r2].awaiting = r1
            /\ req[r2].calls = <<>>
            /\ req[r2].w = "none"
            /\ InFlight(r1) => (req[r2].h = "awaitLock" /\ caseCreationLocks[req[r1].caseId] = r1)
            /\ (Done(r2) /\ promise[r1] = "fulfilled") =>
                  /\ cases[req[r2].caseId].present
                  /\ req[r2].resp = [status |-> 200, caseId |-> req[r2].caseId,
                                     roomJid |-> RoomJidOf(req[r2].caseId),
                                     participants |-> req[r1].parts,
                                     details |-> ""]

\* the second request waited and then answered with the case the first
\* workflow committed, participants included
C3_Witness ==
    \E r1 \in Requests : \E r2 \in Requests :
        /\ Concurrent(r1, r2) /\ FirstForCase(r1) /\ Done(r2)
        /\ promise[r1] = "fulfilled"
        /\ Len(req[r1].calls) > 1
        /\ req[r2].resp.status = 200 /\ Len(req[r2].resp.participants) > 0

\* C4: a createCase request that finds a Case record for its caseId answers
\* at once with that case, rebuilt from the case map, and issues no external
\* call: the request is answered in the step in which it arrives.
C4_ExistingCaseShortCircuits ==
    (\A r \in Requests : \A c \in CaseIds :
          (prev.req[r].kind = "none" /\ req[r].kind = "create" /\ req[r].caseId = c
             /\ prev.cases[c].present)
          => /\ req[r].h = "done"
             /\ req[r].w = "none" /\ req[r].awaiting = 0
             /\ req[r].calls = <<>>
             /\ req[r].resp = [status |-> 200, caseId |-> c, roomJid |-> RoomJidOf(c),
                                participants |-> prev.cases[c].participants,
                                details |-> ""]
             /\ promise[r] = "none" /\ cur = 0 /\ mq = <<>>)

\* a request was answered from the existing record, which has participants
C4_Witness ==
    \E r \in Requests :
        /\ Done(r) /\ req[r].w = "none" /\ req[r].awaiting = 0
        /\ req[r].resp.status = 200 /\ Len(req[r].resp.participants) > 0
        /\ req[r].calls = <<>>

\* a DELETE /users request of the run names the user
BulkDeleted(u) ==
    \E d \in Requests : req[d].kind = "delusers" /\ Includes(req[d].parts, u)

\* C5 as stated: two sequential createCase calls with the same caseId return
\* the same room identifier, and the second issues no room-creation call and
\* no user-creation call for a participant the first call resolved.
C5_SecondCallIdempotent ==
    \A r1 \in Requests : \A r2 \in Requests :
        (Sequential(r1, r2) /\ Done(r2)) =>
            /\ req[r1].resp.roomJid = req[r2].resp.roomJid
            /\ RoomCalls(r2) = <<>>
            /\ \A k \in 1..Len(req[r2].calls) :
                  req[r2].calls[k].kind = "user"
                      => req[r2].calls[k].arg \notin ResolvedBy(r1)

\* C5 amended: when the first of two sequential createCase calls with the
\* same caseId succeeded, both return the same room identifier and the second
\* issues no external call at all; whether or not the first succeeded, the
\* second issues no user-creation call for a participant the first resolved.
C5_IdempotentAfterSuccess ==
    \A r1 \in Requests : \A r2 \in Requests :
        (Sequential(r1, r2) /\ Done(r2)) =>
            /\ req[r1].resp.status = 200 =>
                  /\ req[r2].resp.status = 200
                  /\ req[r2].resp.roomJid = req[r1].resp.roomJid
                  /\ req[r2].resp.roomJid = RoomJidOf(req[r2].caseId)
                  /\ req[r2].calls = <<>>
            /\ \A k \in 1..Len(req[r2].calls) :
                  (req[r2].calls[k].kind = "user" /\ ~BulkDeleted(req[r2].calls[k].arg))
                      => req[r2].calls[k].arg \notin ResolvedBy(r1)

\* the first call created a user and the room; the second, made after the
\* first was answered, got the same room identifier without any call
C5_Witness ==
    \E r1 \in Requests : \E r2 \in Requests :
        /\ Sequential(r1, r2) /\ Done(r2)
        /\ req[r1].resp.status = 200 /\ UserCalls(r1) # <<>>
        /\ req[r2].resp.roomJid = req[r1].resp.roomJid
        /\ req[r2].calls = <<>> /\ req[r2].parts = req[r1].parts

\* the participants named by the grant calls of r, in the order of the calls
RECURSIVE Args(_)
Args(cs) == IF cs = <<>> THEN <<>> ELSE <<Head(cs).arg>> \o Args(Tail(cs))

\* r went through every step: each participant ensured, one room-creation
\* call, one grant attempt per participant in submitted order
RanAllSteps(r) ==
    /\ Len(req[r].xmpp) = Len(req[r].parts)
    /\ Len(RoomCalls(r)) = 1
    /\ Args(GrantCalls(r)) = req[r].parts

\* C6: the Case record is written only after every participant was ensured,
\* the room was created (or reported as existing) and a grant was attempted
\* for every participant; the marker is still in place when the record is
\* written and is released only after the write.
C6_CommitIsLast ==
    /\ \A c \in CaseIds :
          cases[c].present =>
              \E r \in Requests :
                  /\ req[r].kind = "create" /\ req[r].caseId = c
                  /\ req[r].w \in {"finally", "settled"}
                  /\ req[r].err = NoErr
                  /\ RanAllSteps(r)
                  /\ StartsWith(cases[c].participants, req[r].parts)
    /\ \A r \in Requests :
          /\ (InFlight(r) /\ req[r].h = "awaitOwn")
                => caseCreationLocks[req[r].caseId] = r
          /\ (req[r].kind = "create" /\ req[r].w = "settled" /\ req[r].err = NoErr)
                => cases[req[r].caseId].present

\* the record with two participants is written and the marker of the
\* workflow that wrote it is not yet released
C6_Witness ==
    \E r \in Requests :
        /\ req[r].w = "finally" /\ req[r].err = NoErr
        /\ cases[req[r].caseId].present
        /\ Len(cases[req[r].caseId].participants) = 2
        /\ caseCreationLocks[req[r].caseId] = r

\* no workflow other than that of r was started for the case of r
OnlyWorkflow(r) ==
    \A q \in Requests : (q # r /\ SameCase(q, r)) => req[q].w = "none"

\* q arrived when every earlier request for its case had been answered, at
\* least one of them had failed and none had committed
RetryOfFailed(q) ==
    /\ \E r \in Requests : Sequential(r, q) /\ req[r].err # NoErr
    /\ \A r \in Requests :
          (r < q /\ SameCase(r, q)) =>
              /\ r \in req[q].seen
              /\ ~(req[r].w = "settled" /\ req[r].err = NoErr)

\* C7: when ensure-user or room creation fails, the caller receives a
\* failure, no Case record is written for the caseId, the marker is removed,
\* and a later createCase for the caseId runs the workflow again from the
\* first step.
C7_FailureLeavesNothing ==
    /\ \A r \in Requests :
          (req[r].kind = "create" /\ Done(r) /\ req[r].err # NoErr) =>
              /\ req[r].resp.status \in {422, 500}
              /\ req[r].resp.roomJid = ""
              /\ OnlyWorkflow(r) =>
                    /\ ~cases[req[r].caseId].present
                    /\ caseCreationLocks[req[r].caseId] = 0
    /\ \A q \in Requests :
          RetryOfFailed(q) =>
              /\ req[q].w # "none"
              /\ req[q].awaiting \in {0, q}
              /\ (req[q].w = "settled" /\ req[q].err = NoErr) => RanAllSteps(q)

\* a first request failed at room creation after creating its user; the
\* second, made after the failure was answered, went through every step
\* again and committed
C7_Witness ==
    \E r \in Requests : \E q \in Requests :
        /\ Sequential(r, q) /\ RetryOfFailed(q)
        /\ req[r].err # NoErr /\ Len(RoomCalls(r)) = 1 /\ req[r].parts # <<>>
        /\ Done(q) /\ req[q].resp.status = 200
        /\ Len(RoomCalls(q)) = 1 /\ req[q].parts # <<>>

\* C8: a failed access grant never aborts createCase nor the grants of the
\* remaining participants: whatever subset of the grants fails, a grant is
\* attempted for every participant, the caller is told success and every
\* submitted participant is in the committed record.
C8_GrantFailureTolerated ==
    \A r \in Requests :
        req[r].gfail # {} =>
            /\ req[r].err = NoErr
            /\ req[r].w = "settled" =>
                  /\ promise[r] = "fulfilled"
                  /\ Args(GrantCalls(r)) = req[r].parts
                  /\ cases[req[r].caseId].present
                  /\ StartsWith(cases[req[r].caseId].participants, req[r].parts)
            /\ Done(r) =>
                  /\ req[r].resp.status = 200
                  /\ req[r].resp.participants = req[r].parts

\* the grant of the first of two participants failed, the second was still
\* attempted, and the request was answered with success
C8_Witness ==
    \E r \in Requests :
        /\ req[r].gfail = {1} /\ Len(req[r].parts) = 2
        /\ Len(GrantCalls(r)) = 2
        /\ Done(r) /\ req[r].resp.status = 200

\* the last call r issued was the room-creation call
LastCallIsRoom(r) ==
    req[r].calls # <<>> /\ req[r].calls[Len(req[r].calls)].kind = "room"

C10_UserConflictIsSuccess ==
    (\A r \in Requests :
          (prev.cur = r /\ prev.req[r].w = "userResp1" /\ prev.req[r].out = E422Exists) =>
              LET u == prev.req[r].parts[prev.req[r].i] IN
                  /\ req[r].w = "ensureRet"
                  /\ req[r].err = NoErr
                  /\ req[r].calls = prev.req[r].calls
                  /\ req[r].ret = IF prev.users[u].present /\ prev.users[u].xmppUsername # ""
                                     THEN prev.users[u].xmppUsername
                                     ELSE u
                  /\ users[u].present)

\* the conflict answered the only call made for the participant, and
\* ensureUser returned the identifier another workflow had cached meanwhile
C10_Witness ==
    \E r \in Requests :
        /\ req[r].w = "ensureRet" /\ req[r].out = E422Exists
        /\ req[r].err = NoErr
        /\ Len(UserCalls(r)) = 1
        /\ req[r].ret = AppId \o "_" \o req[r].parts[req[r].i]

\* the user-creation calls r issued for its k-th participant
UserCallsFor(r, k) == SelectSeq(req[r].calls, LAMBDA x : x.kind = "user" /\ x.idx = k)

\* C11: when the first user-creation call of ensureUser fails otherwise than
\* with the conflict, ensureUser makes exactly one more user-creation call and
\* hands an error on only if that call fails too; no invocation of ensureUser
\* makes more than two user-creation calls.
C11_RetryOnceBeforeError ==
    \A r \in Requests :
        /\ \A k \in 1..Len(req[r].parts) : Len(UserCallsFor(r, k)) <= 2
        /\ (req[r].w = "ensureRet" /\ req[r].err # NoErr
              /\ UserCallsFor(r, req[r].i) # <<>>)
                => /\ Len(UserCallsFor(r, req[r].i)) = 2
                   /\ req[r].out.kind = "axios" /\ ~IsAlreadyExists(req[r].out)

\* C12: addParticipant for a caseId without Case record answers NotFound
\* (404) in the step in which it arrives, issues no external call, and leaves
\* the case map and the participant cache as they were.
C12_UnknownCaseNotFound ==
    (\A r \in Requests :
          (prev.req[r].kind = "none" /\ req[r].kind = "add"
             /\ ~prev.cases[req[r].caseId].present)
          => /\ req[r].h = "done" /\ req[r].resp.status = 404
             /\ req[r].w = "none" /\ req[r].calls = <<>>
             /\ cases = prev.cases /\ users = prev.users
             /\ cur = 0 /\ mq = <<>>)

\* a request to add a participant to "c2" was answered 404 while "c1" has its
\* record; nothing was called and "c2" still has no record
C12_Witness ==
    \E r \in Requests :
        /\ req[r].kind = "add" /\ Done(r) /\ req[r].resp.status = 404
        /\ req[r].caseId = "c2" /\ req[r].parts # <<>> /\ req[r].calls = <<>>
        /\ cases["c1"].present /\ ~cases["c2"].present

NoDuplicates(list) ==
    \A j \in 1..Len(list) : \A k \in 1..Len(list) : list[j] = list[k] => j = k

\* C13: addParticipant only appends, and never an identifier the list already
\* holds: every step leaves a case's participant list as it was or appends one
\* identifier that was not in it, so recorded entries are neither removed nor
\* reordered, and an added identifier appears once, concurrent calls for the
\* same participant included.
C13_AppendOnlyNoDuplicate ==
    /\ (\A c \in CaseIds :
            prev.cases[c].present =>
                /\ cases[c].present
                /\ \/ cases[c].participants = prev.cases[c].participants
                   \/ \E u \in UserIds :
                         /\ ~Includes(prev.cases[c].participants, u)
                         /\ cases[c].participants = Append(prev.cases[c].participants, u))
    /\ (\A c \in CaseIds : NoDuplicates(cases[c].participants))

\* two overlapping requests added the same new participant to the same case,
\* both created or found the user and were answered 200, and the list holds
\* the participant once
C13_Witness ==
    \E r1 \in Requests : \E r2 \in Requests :
        /\ r1 < r2 /\ req[r1].kind = "add" /\ req[r2].kind = "add"
        /\ req[r1].caseId = req[r2].caseId /\ req[r1].parts = req[r2].parts
        /\ r1 \notin req[r2].seen
        /\ Done(r1) /\ Done(r2)
        /\ req[r1].resp.status = 200 /\ req[r2].resp.status = 200
        /\ UserCalls(r1) # <<>> /\ UserCalls(r2) # <<>>
        /\ cases[req[r1].caseId].participants = req[r1].parts

\* C14 as stated: the lock map has an entry for a caseId only while a
\* creation workflow for that caseId is in flight.
C14_LockOnlyInFlight ==
    \A c \in CaseIds :
        caseCreationLocks[c] # 0 =>
            /\ InFlight(caseCreationLocks[c])
            /\ req[caseCreationLocks[c]].caseId = c

\* the workflow of r threw before its first await, so that the handler stored
\* the promise of a workflow that had already failed; the handler's catch is
\* running or is queued as a microtask
FailedBeforeFirstAwait(r) ==
    /\ req[r].w = "settled" /\ req[r].err # NoErr /\ req[r].calls = <<>>
    /\ req[r].h \in {"awaitOwn", "resume"} /\ req[r].awaiting = r
    /\ cur = r \/ mq # <<>>

\* C14 amended: the lock map has an entry for a caseId only while the
\* createCase request that started the workflow is unanswered, and the
\* workflow is then in flight, except when it threw before its first await:
\* then the entry is stored after the failure and removed by the handler's
\* catch before any other request or response is handled.  Whenever no code
\* is running and no microtask is queued, an entry means a workflow in flight.
C14_LockOnlyWhileUnanswered ==
    \A c \in CaseIds :
        caseCreationLocks[c] # 0 =>
            LET r == caseCreationLocks[c] IN
                /\ req[r].kind = "create" /\ req[r].caseId = c
                /\ ~Done(r)
                /\ InFlight(r) \/ FailedBeforeFirstAwait(r)
                /\ (cur = 0 /\ mq = <<>>) => InFlight(r)

\* one request failed and was answered, its marker is gone; the workflow of
\* a later request for the same case waits for the external API under its
\* own marker
C14_Witness ==
    \E r1 \in Requests : \E r2 \in Requests :
        /\ Sequential(r1, r2)
        /\ Done(r1) /\ req[r1].err # NoErr /\ req[r1].calls # <<>>
        /\ InFlight(r2) /\ req[r2].w = "roomWait"
        /\ caseCreationLocks[req[r2].caseId] = r2

\* C15: once written, a Case record is never removed from the case map by
\* any operation, deletion of the external chat room included; its caseId
\* never changes and its participant list never shrinks.
C15_RecordNeverRemoved ==
    /\ (\A c \in CaseIds :
            prev.cases[c].present =>
                /\ cases[c].present
                /\ cases[c].caseId = prev.cases[c].caseId
                /\ StartsWith(cases[c].participants, prev.cases[c].participants))
    /\ (\A c \in CaseIds : cases[c].present => cases[c].caseId = c)

\* the external room of a case with participants was deleted and the request
\* answered 200; the record is still in the case map
C15_Witness ==
    \E r \in Requests :
        /\ req[r].kind = "delchat" /\ Done(r) /\ req[r].resp.status = 200
        /\ req[r].result = ApiResult
        /\ cases[req[r].caseId].present
        /\ cases[req[r].caseId].participants # <<>>

\* C16: whenever a createCase request fails because of an external API error,
\* the response to that caller carries the external status code and the
\* external error body; this holds for the caller whose request ran the
\* workflow and for a caller that waited for it.
C16_FailureCarriesExternalError ==
    \A r \in Requests :
        (req[r].kind = "create" /\ Done(r) /\ req[r].awaiting # 0
           /\ req[r].resp.status # 200)
        => LET e == req[req[r].awaiting].err IN
               (e.kind = "axios" /\ e.status # 0)
                   => /\ req[r].resp.status = e.status
                      /\ req[r].resp.details = e.body

\* C17: every access-grant call createCase issues for a participant names the
\* external identifier ensure-user resolved for that participant (the
\* xmppUsername the external API returned, when it returned one), against the
\* room <appId>_<caseId> of the case.
C17_GrantNamesResolvedIdentifier ==
    \A r \in Requests :
        req[r].kind = "create" =>
            \A k \in 1..Len(GrantCalls(r)) :
                LET g == GrantCalls(r)[k] IN
                    /\ g.room = AppId \o "_" \o req[r].caseId
                    /\ g.arg = req[r].xmpp[g.idx]

AnyMissing ==
    \E v \in DOMAIN boot.env : boot.env[v] \in {"undefined", ""}

\* C18: if the API base URL, the application id or the signing secret is
\* missing, start-up fails before the server listens and no request is ever
\* served; with all three present start-up does not fail and goes on to the
\* serving state.
C18_MissingConfigFailsFast ==
    /\ (  /\ (prev.boot.phase = "loading" /\ boot.phase # "loading")
                => (boot.phase = (IF \E v \in DOMAIN prev.boot.env :
                                          prev.boot.env[v] \in {"undefined", ""}
                                    THEN "failed" ELSE "configured"))
          /\ (prev.boot.phase = "failed") => (boot.phase = "failed")
          /\ boot.env = prev.boot.env)
    /\ (  /\ AnyMissing =>
                (/\ boot.phase \in {"loading", "failed"}
                 /\ \A r \in Requests : req[r].kind = "none")
          /\ (\E r \in Requests : req[r].kind # "none") => (boot.phase = "listening"))

\* with the three settings present the server listens and has answered a
\* request
C18_Witness ==
    /\ ~AnyMissing /\ boot.phase = "listening"
    /\ \E r \in Requests : Done(r) /\ req[r].resp.status = 200

\* the delete requests whose external call has been answered
DeleteAnswered(r) == req[r].kind \in {"delchat", "delusers"} /\ req[r].result # NoResult

\* C19 as stated: for deleteChatRoom and deleteUsers an HTTP 422 whose body
\* contains "not found" is surfaced as the soft result {ok:false, reason} and
\* not thrown, and every other failure is re-thrown.
C19_NotFoundIsSoftWithReason ==
    \A r \in Requests :
        DeleteAnswered(r) =>
            /\ req[r].out = E422NotFound =>
                  /\ req[r].result.kind = "soft" /\ ~req[r].result.ok
                  /\ req[r].result.reason # "undefined"
            /\ req[r].out = E500 => req[r].result = Thrown

\* C19 amended: deleteChatRoom surfaces an HTTP 422 whose body is a string
\* containing "not found", in any letter case, as the soft result {ok:false,
\* reason:"Chat room not found"}; deleteUsers surfaces an HTTP 422 whose body
\* is a string containing "not found" in lower case as the soft result
\* {ok:false}, which has no reason; every other failure, a 422 whose body is
\* a JSON object included, is re-thrown to the caller.
C19_NotFoundIsSoft ==
    \A r \in Requests :
        DeleteAnswered(r) =>
            /\ req[r].out = E422NotFound =>
                  req[r].result = [kind |-> "soft", ok |-> FALSE,
                                   reason |-> IF req[r].kind = "delchat"
                                                THEN "Chat room not found"
                                                ELSE "undefined"]
            /\ req[r].out = E422NotFoundCaps =>
                  req[r].result = IF req[r].kind = "delchat"
                                    THEN [kind |-> "soft", ok |-> FALSE,
                                          reason |-> "Chat room not found"]
                                    ELSE [kind |-> "thrown", ok |-> FALSE,
                                          reason |-> "undefined"]
            /\ req[r].out \in {E422NotFoundObj, E500} =>
                  req[r].result = [kind |-> "thrown", ok |-> FALSE,
                                   reason |-> "undefined"]
            /\ req[r].resp.status = IF req[r].result.kind = "thrown" THEN 500 ELSE 200

\* a chat-room deletion and a bulk user deletion were both answered 422 "not
\* found" and both requests got a soft result
C19_Witness ==
    \E r1 \in Requests : \E r2 \in Requests :
        /\ req[r1].kind = "delchat" /\ req[r2].kind = "delusers"
        /\ Done(r1) /\ Done(r2)
        /\ req[r1].out = E422NotFound /\ req[r2].out = E422NotFound
        /\ req[r1].result.kind = "soft" /\ req[r2].result.kind = "soft"

\* the name with the JID domain taken off its end
StripDomain(jid) ==
    LET n == Len(jid) - Len(ETHORA_JID_DOMAIN) IN
        IF n >= 0 /\ SubSeq(jid, n + 1, Len(jid)) = ETHORA_JID_DOMAIN
          THEN SubSeq(jid, 1, n)
          ELSE jid

\* C20: for every caseId, createChatName(caseId, true) with the JID domain
\* suffix removed equals createChatName(caseId, false), and both equal
\* <appId>_<caseId>.
C20_StripDomainRoundTrip ==
    \A r \in Requests :
        req[r].kind = "jid" =>
            /\ StripDomain(req[r].resp.roomJid) = createChatName(req[r].caseId, FALSE)
            /\ StripDomain(req[r].resp.roomJid) = AppId \o "_" \o req[r].caseId
            /\ createChatName(req[r].caseId, FALSE) = AppId \o "_" \o req[r].caseId

\* the full JID was asked for a caseId that itself ends with the JID domain,
\* and for one that holds an "@"
C20_Witness ==
    \E r1 \in Requests : \E r2 \in Requests :
        /\ req[r1].kind = "jid" /\ req[r2].kind = "jid"
        /\ req[r1].caseId = "c1" \o ETHORA_JID_DOMAIN
        /\ req[r2].caseId = "@" \o "c1"
        /\ req[r1].resp.roomJid = "app_c1" \o ETHORA_JID_DOMAIN \o ETHORA_JID_DOMAIN
        /\ StripDomain(req[r1].resp.roomJid) = "app_c1" \o ETHORA_JID_DOMAIN

\* the participant whose ensureUser is running in request r
CurrentProfile(r) == req[r].profiles[req[r].i]

\* a response to a user-creation call of r is being handled and the step
\* stores a cache entry for u
StoresProfile(r, u) ==
    /\ prev.cur = r /\ prev.req[r].w \in {"userResp1", "userResp2"}
    /\ users[u] # prev.users[u] /\ users[u].present

\* no user-creation call carries a lastName shorter than two characters
NeverSentShort ==
    \A r \in Requests : \A k \in 1..Len(req[r].calls) :
        req[r].calls[k].kind = "user" => Len(req[r].calls[k].lastName) >= 2

C22_SuccessResponse ==
    \A r \in Requests :
        (req[r].kind = "create" /\ Done(r) /\ req[r].w = "settled" /\ req[r].err = NoErr)
            => req[r].resp = [status |-> 200,
                              caseId |-> req[r].caseId,
                              roomJid |-> AppId \o "_" \o req[r].caseId
                                              \o "@conference.xmpp.ethoradev.com",
                              participants |-> req[r].parts,
                              details |-> ""]

\* a request with two different participants was answered after two user
\* creations, one room creation and two grants, all of which succeeded
C22_Witness ==
    \E r \in Requests :
        /\ req[r].kind = "create" /\ Done(r) /\ req[r].resp.status = 200
        /\ req[r].parts = <<"u1", "u2">>
        /\ Len(UserCalls(r)) = 2 /\ Len(RoomCalls(r)) = 1 /\ Len(GrantCalls(r)) = 2
        /\ req[r].gfail = {}
        /\ req[r].resp.participants = <<"u1", "u2">>
        /\ req[r].resp.roomJid = "app_" \o req[r].caseId \o "@conference.xmpp.ethoradev.com"

\* C23: if every external call is answered in the end, every creation
\* workflow that was started commits its Case record or fails, and every
\* createCase request is answered, one that waits for a creation in flight
\* included: no request waits forever.  A request, once answered, stays
\* answered, so this says that from some moment on every request made has
\* its answer and every workflow started has settled.
C23_EveryRequestAnswered ==
    <>[](\A r \in Requests :
            /\ req[r].kind = "create" => Done(r)
            /\ req[r].w # "none" =>
                  /\ req[r].w = "settled" /\ promise[r] # "pending"
                  /\ cases[req[r].caseId].present \/ req[r].err # NoErr)

\* a request that waited for the creation in flight of another request was
\* answered after that workflow failed at room creation
C23_Witness ==
    \E r1 \in Requests : \E r2 \in Requests :
        /\ Concurrent(r1, r2) /\ req[r2].awaiting = r1
        /\ Done(r1) /\ Done(r2)
        /\ req[r1].err # NoErr /\ Len(RoomCalls(r1)) = 1
        /\ req[r2].resp.status = 500

\* C24: GET /chat/token/:userId issues the client token for the xmppUsername
\* the participant cache holds for the user, and for the given userId when
\* the cache holds none.
C24_TokenForCachedIdentifier ==
    (\A r \in Requests :
          (prev.req[r].kind = "none" /\ req[r].kind = "token") =>
              LET u == req[r].parts[1] IN
                  req[r].token = IF prev.users[u].present /\ prev.users[u].xmppUsername # ""
                                    THEN prev.users[u].xmppUsername
                                    ELSE u)

\* C25 as stated: in every creation workflow the marker for the caseId is in
\* the lock map before the workflow issues its first external call.
C25_LockBeforeFirstCall ==
    (\A r \in Requests :
          (prev.req[r].kind = "create" /\ prev.req[r].calls = <<>> /\ req[r].calls # <<>>)
              => prev.caseCreationLocks[prev.req[r].caseId] = r)

\* C25 amended: the marker is registered in the synchronous run that starts
\* the workflow, after the async block has run to its first await: by then
\* the workflow has issued at most one external call: the user-creation call
\* for its first participant when the cache does not hold it, or the
\* room-creation call when there is no participant.  The marker is
\* in place before anything else is handled: whenever no code is running, a
\* workflow in flight has its marker, and every external response to a
\* workflow is handled under its marker.
C25_LockWithinStartingRun ==
    /\ (\A r \in Requests :
            (prev.req[r].kind = "create" /\ prev.cur = 0 /\ cur = r /\ prev.req[r].w # "none"
               /\ req[r].out # prev.req[r].out)
                => prev.caseCreationLocks[prev.req[r].caseId] = r)
    /\ (\A r \in Requests :
            InFlight(r) =>
                /\ cur = 0 => caseCreationLocks[req[r].caseId] = r
                /\ caseCreationLocks[req[r].caseId] # r =>
                      /\ cur = r /\ req[r].h \in {"calling", "setlock"}
                      /\ Len(req[r].calls) <= 1
                      /\ \A k \in 1..Len(req[r].calls) :
                            \/ req[r].calls[k].kind = "user" /\ req[r].calls[k].idx = 1
                            \/ req[r].calls[k].kind = "room" /\ req[r].parts = <<>>)

\* the handler has stored the marker and awaits the promise of a workflow
\* that waits for the answer to its first call
C25_Witness ==
    \E r \in Requests :
        /\ InFlight(r) /\ req[r].h = "awaitOwn" /\ req[r].w = "userWait1"
        /\ Len(req[r].calls) = 1 /\ cur = 0
        /\ caseCreationLocks[req[r].caseId] = r

\* the participants whose external user the workflow of r created
CreatedBy(r) == {req[r].parts[k] : k \in req[r].created}

\* r2 retries the createCase that failed in r1
RetryAfter(r1, r2) == Sequential(r1, r2) /\ req[r1].err # NoErr /\ RetryOfFailed(r2)

\* C26 as stated: when createCase is retried after a failed attempt,
\* ensure-user issues, for each participant whose external user the failed
\* attempt created, a user-creation call that is answered with the conflict
\* and treated as success.
C26_RetryHitsConflict ==
    \A r1 \in Requests : \A r2 \in Requests :
        RetryAfter(r1, r2) =>
            \A k \in 1..Len(req[r2].xmpp) :
                req[r2].parts[k] \in CreatedBy(r1) =>
                    /\ UserCallsFor(r2, k) # <<>>
                    /\ k \in req[r2].conflicts

\* C26 amended: when createCase is retried after a failed attempt,
\* ensure-user finds each participant whose external user the failed attempt
\* created in the participant cache (unless a bulk delete removed it since)
\* and returns the cached identifier: it issues no user-creation call for it
\* and the conflict path is not taken.
C26_RetryHitsCache ==
    \A r1 \in Requests : \A r2 \in Requests :
        RetryAfter(r1, r2) =>
            \A k \in 1..Len(req[r2].xmpp) :
                (req[r2].parts[k] \in CreatedBy(r1) /\ ~BulkDeleted(req[r2].parts[k])) =>
                    /\ UserCallsFor(r2, k) = <<>>
                    /\ k \notin req[r2].conflicts /\ k \notin req[r2].created
                    /\ req[r2].xmpp[k] \in {req[r2].parts[k], AppId \o "_" \o req[r2].parts[k]}

\* the first attempt created the user and failed at room creation; the
\* retry, for the same participant, made no user-creation call, created the
\* room and was answered with success
C26_Witness ==
    \E r1 \in Requests : \E r2 \in Requests :
        /\ RetryAfter(r1, r2)
        /\ req[r1].created = {1} /\ Len(RoomCalls(r1)) = 1
        /\ req[r2].parts = req[r1].parts
        /\ Done(r2) /\ req[r2].resp.status = 200
        /\ UserCalls(r2) = <<>> /\ Len(RoomCalls(r2)) = 1

\* C27: ensureUser for a participant whose cache entry holds a resolved
\* external identifier returns that identifier and issues no external
\* user-creation call; the cache is left as it is.
C27_CacheHitNoCall ==
    (\A r \in Requests :
          (/\ prev.cur = r /\ prev.req[r].h \notin {"setlock", "resume"}
           /\ prev.req[r].w = "ensure" /\ prev.req[r].i <= Len(prev.req[r].parts)
           /\ prev.users[prev.req[r].parts[prev.req[r].i]].present
           /\ prev.users[prev.req[r].parts[prev.req[r].i]].xmppUsername # "")
          => /\ req[r].w = "ensureRet"
             /\ req[r].ret = prev.users[prev.req[r].parts[prev.req[r].i]].xmppUsername
             /\ req[r].err = NoErr
             /\ req[r].calls = prev.req[r].calls
             /\ users = prev.users)

\* ensureUser returned the identifier "app_u1", which an earlier request had
\* cached, to a request that has made no call
C27_Witness ==
    \E r \in Requests :
        /\ req[r].w = "ensureRet" /\ req[r].err = NoErr /\ req[r].calls = <<>>
        /\ req[r].ret = AppId \o "_" \o req[r].parts[req[r].i]
        /\ users[req[r].parts[req[r].i]].xmppUsername = req[r].ret

\* the place of a call in the workflow: STEP 1, 2 or 3
StepOf(call) == IF call.kind = "user" THEN 1 ELSE IF call.kind = "room" THEN 2 ELSE 3

\* C28: within one creation workflow the external calls are issued one after
\* another, never two outstanding at once, in this order: user creation for
\* the participants in submitted order, then one room creation, then exactly
\* one grant attempt per participant in submitted order; a failed grant is
\* not retried.
C28_CallsSequentialInOrder ==
    \A r \in Requests :
        req[r].kind = "create" =>
            LET cs == req[r].calls IN
                /\ Len(cs) - req[r].answered \in {0, 1}
                /\ (Len(cs) - req[r].answered = 1)
                      <=> (req[r].w \in {"userWait1", "userWait2", "roomWait", "grantWait"})
                /\ \A j \in 1..Len(cs) : \A k \in 1..Len(cs) :
                      j < k => /\ StepOf(cs[j]) <= StepOf(cs[k])
                               /\ cs[j].kind = cs[k].kind => cs[j].idx <= cs[k].idx
                /\ \A k \in 1..Len(cs) :
                      cs[k].kind \in {"user", "grant"} => cs[k].arg = req[r].parts[cs[k].idx]
                /\ Len(RoomCalls(r)) <= 1
                /\ RoomCalls(r) # <<>> => Len(req[r].xmpp) = Len(req[r].parts)
                /\ GrantCalls(r) # <<>> => Len(RoomCalls(r)) = 1
                /\ \A k \in 1..Len(GrantCalls(r)) : GrantCalls(r)[k].idx = k
                /\ (req[r].w = "settled" /\ req[r].err = NoErr) =>
                      Args(GrantCalls(r)) = req[r].parts

\* a workflow for two participants made two user-creation calls, one
\* room-creation call and two grant calls, in this order, each after the
\* answer to the one before; the first grant failed and was not repeated
C28_Witness ==
    \E r \in Requests :
        /\ req[r].kind = "create" /\ req[r].w = "settled" /\ req[r].err = NoErr
        /\ req[r].parts = <<"u1", "u2">>
        /\ Len(req[r].calls) = 5 /\ req[r].answered = 5
        /\ req[r].calls[1].kind = "user" /\ req[r].calls[2].kind = "user"
        /\ req[r].calls[3].kind = "room"
        /\ req[r].calls[4].kind = "grant" /\ req[r].calls[5].kind = "grant"
        /\ req[r].gfail = {1}

\* r and q run workflows for different cases and both have an unanswered
\* user-creation call for the same participant
BothCreating(r, q) ==
    /\ r # q /\ req[r].kind = "create" /\ req[q].kind = "create"
    /\ req[r].caseId # req[q].caseId
    /\ req[r].w \in {"userWait1", "userWait2"} /\ req[q].w \in {"userWait1", "userWait2"}
    /\ req[r].parts[req[r].i] = req[q].parts[req[q].i]

\* C29: the participant cache has no lock.  Whether ensureUser issues a
\* user-creation call is decided by the cache entry alone: on a miss it goes
\* on to the call (or throws while building it) even while another workflow
\* has an unanswered user-creation call for the same participant, so that two
\* workflows for different caseIds can both miss the cache and both issue the
\* call.
C29_CacheHasNoLock ==
    (\A r \in Requests :
          (/\ prev.cur = r /\ prev.req[r].h \notin {"setlock", "resume"}
           /\ prev.req[r].w = "ensure" /\ prev.req[r].i <= Len(prev.req[r].parts)
           /\ ~(/\ prev.users[prev.req[r].parts[prev.req[r].i]].present
                 /\ prev.users[prev.req[r].parts[prev.req[r].i]].xmppUsername # ""))
          => \/ /\ req[r].w = "userWait1"
                /\ Len(req[r].calls) = Len(prev.req[r].calls) + 1
                /\ req[r].calls[Len(req[r].calls)].kind = "user"
                /\ req[r].calls[Len(req[r].calls)].arg = prev.req[r].parts[prev.req[r].i]
             \/ /\ req[r].w = "ensureRet" /\ req[r].err = EOther
                /\ req[r].calls = prev.req[r].calls)

\* two workflows for different caseIds both missed the cache for "u1" and
\* both wait for the answer to their user-creation call for "u1"
C29_Witness ==
    \E r \in Requests : \E q \in Requests :
        /\ BothCreating(r, q)
        /\ req[r].w = "userWait1" /\ req[q].w = "userWait1"
        /\ Len(UserCalls(r)) = 1 /\ Len(UserCalls(q)) = 1
        /\ ~users[req[r].parts[req[r].i]].present

\* C30: a participant-cache entry, once created, is removed only by the
\* bulk delete (DELETE /users): a step that removes the entry of u is the
\* step of a DELETE /users request that names u, taken after its external
\* call returned; createCase, addParticipant, token issuance and chat-room
\* deletion leave every entry in the cache.
C30_CacheEntryRemovedByBulkDeleteOnly ==
    (\A u \in UserIds :
          (prev.users[u].present /\ ~users[u].present) =>
              \E r \in Requests :
                  /\ prev.req[r].kind = "delusers" /\ prev.cur = r /\ prev.req[r].w = "delResp"
                  /\ Includes(prev.req[r].parts, u)
                  /\ req[r].h = "done" /\ req[r].resp.status = 200)

\* createCase cached "u1" with the identifier the external API returned, and
\* a later DELETE /users naming "u1" removed the entry
C30_Witness ==
    \E q \in Requests : \E r \in Requests :
        /\ req[q].kind = "create" /\ req[q].created = {1} /\ req[q].parts = <<"u1">>
        /\ req[r].kind = "delusers" /\ Done(r) /\ req[r].resp.status = 200
        /\ req[r].parts = <<"u1">> /\ q \in req[r].seen
        /\ ~users["u1"].present

\* the request waited on the pending marker of another request's workflow
Waited(r) == req[r].kind = "create" /\ req[r].awaiting \notin {0, r}

\* C31: when the in-flight creation workflow for a caseId fails, a request
\* that waited on its pending marker is answered with an error and starts no
\* creation workflow of its own; a waiting request never falls through to a
\* second creation.
C31_WaiterFailsWithWorkflow ==
    \A r \in Requests :
        Waited(r) =>
            /\ req[r].w = "none"
            /\ req[r].calls = <<>>
            /\ promise[r] = "none"
            /\ caseCreationLocks[req[r].caseId] # r
            /\ (Done(r) /\ promise[req[r].awaiting] = "rejected") =>
                  /\ req[r].resp.status = 500
                  /\ req[r].resp.participants = <<>>
                  /\ req[req[r].awaiting].err # NoErr
                  \* the step that answers it finds no record of the case
                  /\ prev.req[r].h # "done" => ~cases[req[r].caseId].present

\* the workflow failed on an answer of the external API and the request that
\* waited on its marker has been answered with the error
C31_Witness ==
    \E r \in Requests :
        /\ Waited(r) /\ Done(r)
        /\ promise[req[r].awaiting] = "rejected"
        /\ req[req[r].awaiting].calls # <<>>
        /\ req[req[r].awaiting].resp.status >= 400
        /\ req[r].resp.status = 500

\* the step removes the marker that request q registered for caseId c
RemovesMarker(c, q) == prev.caseCreationLocks[c] = q /\ caseCreationLocks[c] = 0

\* C32: the marker removals of a finishing workflow (the finally block of the
\* workflow and the catch block of the request handler) never delete a
\* pending marker registered by a different, still-running workflow for the
\* same caseId: a registered marker is removed only by the request that
\* registered it, for its own caseId, and a running workflow's marker stays.
C32_RemovalsHitOwnMarkerOnly ==
    (\A c \in CaseIds : \A q \in Requests :
          /\ RemovesMarker(c, q) => (prev.cur = q /\ prev.req[q].caseId = c)
          /\ (prev.caseCreationLocks[c] = q /\ prev.req[q].kind = "create"
                /\ prev.req[q].w \notin {"none", "settled"} /\ prev.cur # q)
                => caseCreationLocks[c] = q)

\* a workflow failed and both of its removals have run, and a later workflow
\* for the same caseId is running with its marker in place
C32_Witness ==
    \E r1 \in Requests : \E r2 \in Requests :
        /\ Sequential(r1, r2) /\ Done(r1)
        /\ promise[r1] = "rejected"
        /\ InFlight(r2) /\ req[r2].w \in {"userWait1", "roomWait", "grantWait"}
        /\ caseCreationLocks[req[r2].caseId] = r2

\* how many times the list holds u
Count(list, u) == Cardinality({k \in 1..Len(list) : list[k] = u})

\* the createCase request whose workflow committed the record of caseId c
Committed(r, c) ==
    /\ req[r].kind = "create" /\ req[r].caseId = c
    /\ req[r].err = NoErr /\ req[r].w \in {"finally", "settled"}

\* C33 as stated: no Case record's participant list holds the same userId
\* more than once, whatever participants arrays createCase was given and
\* whatever addParticipant calls were made.
C33_NoDuplicateParticipants ==
    \A c \in CaseIds : NoDuplicates(cases[c].participants)

\* C33 amended: a Case record's participant list begins with the userIds of
\* the participants array of the createCase request that committed it, in
\* order and repeated as often as the array repeats them; addParticipant
\* never adds an occurrence of a userId the list already holds, so a userId
\* occurs more than once only as often as that array named it.
C33_DuplicatesOnlyFromCreateCase ==
    \A c \in CaseIds :
        cases[c].present =>
            \E r \in Requests :
                /\ Committed(r, c)
                /\ StartsWith(cases[c].participants, req[r].parts)
                /\ \A u \in UserIds :
                      Count(cases[c].participants, u)
                          <= IF Count(req[r].parts, u) > 1
                               THEN Count(req[r].parts, u) ELSE 1

\* createCase committed a record with one participant, addParticipant for
\* the same userId was answered 200, and the list holds the userId once
C33_Witness ==
    \E r \in Requests : \E q \in Requests :
        /\ Committed(r, req[r].caseId) /\ Len(req[r].parts) = 1
        /\ req[q].kind = "add" /\ req[q].caseId = req[r].caseId
        /\ req[q].parts = req[r].parts
        /\ Done(q) /\ req[q].resp.status = 200
        /\ cases[req[r].caseId].participants = req[r].parts

\* C34: a createCase request for a caseId that already has a Case record
\* leaves the local state as it is: the participants of the repeated request
\* are ignored, and the case map, the participant cache and the lock map are
\* the same after the request's step as before it, with no continuation left
\* behind that could change them later.
C34_RepeatedRequestChangesNothing ==
    (\A r \in Requests : \A c \in CaseIds :
          (prev.req[r].kind = "none" /\ req[r].kind = "create" /\ req[r].caseId = c
             /\ prev.cases[c].present)
          => /\ cases = prev.cases
             /\ users = prev.users
             /\ caseCreationLocks = prev.caseCreationLocks
             /\ promise = prev.promise /\ reactions = prev.reactions /\ mq = prev.mq
             /\ req[r].h = "done" /\ cur = prev.cur)

\* a repeated request that named other participants than the record holds
\* has been answered, and the record still holds its own
C34_Witness ==
    \E r \in Requests : \E q \in Requests :
        /\ Sequential(q, r) /\ Committed(q, req[q].caseId)
        /\ Done(r) /\ req[r].w = "none" /\ req[r].awaiting = 0
        /\ req[r].parts # req[q].parts /\ req[r].parts # <<>>
        /\ cases[req[r].caseId].participants = req[q].parts
        /\ req[r].resp.participants = req[q].parts

\* C35: pending markers are per caseId. A createCase request for a caseId
\* that has neither record nor marker starts its own workflow in the step in
\* which it arrives, whatever markers other caseIds have: it does not wait,
\* is not answered at once and has no error; a request only ever waits on
\* the workflow of its own caseId, so workflows for distinct caseIds are in
\* flight at the same time.
C35_MarkersArePerCase ==
    /\ (\A r \in Requests : \A c \in CaseIds :
            (prev.req[r].kind = "none" /\ req[r].kind = "create" /\ req[r].caseId = c
               /\ ~prev.cases[c].present /\ prev.caseCreationLocks[c] = 0)
            => /\ req[r].w = "start" /\ promise[r] = "pending"
               /\ req[r].awaiting = 0 /\ req[r].h # "done"
               /\ req[r].err = NoErr
               /\ \A d \in CaseIds : caseCreationLocks[d] = prev.caseCreationLocks[d])
    /\ (\A r \in Requests :
            Waited(r) => req[req[r].awaiting].caseId = req[r].caseId)

\* two workflows for different caseIds wait for the external API at the same
\* time, each with its own marker
C35_Witness ==
    \E r1 \in Requests : \E r2 \in Requests :
        /\ r1 < r2 /\ InFlight(r1) /\ InFlight(r2)
        /\ req[r1].caseId # req[r2].caseId
        /\ req[r1].w \in {"userWait1", "roomWait", "grantWait"}
        /\ req[r2].w \in {"userWait1", "roomWait", "grantWait"}
        /\ caseCreationLocks[req[r1].caseId] = r1
        /\ caseCreationLocks[req[r2].caseId] = r2

\* C36: when the retry user-creation call of ensureUser is answered with the
\* already-exists conflict (422 whose text contains "already exist"),
\* ensureUser returns successfully instead of propagating the error: with the
\* cached external identifier when the cache holds one, else with the plain
\* userId, which it also stores; it issues no further call.
C36_RetryConflictIsSuccess ==
    (\A r \in Requests :
          (prev.cur = r /\ prev.req[r].w = "userResp2" /\ IsAlreadyExists(prev.req[r].out)) =>
              LET u == prev.req[r].parts[prev.req[r].i] IN
                  /\ req[r].w = "ensureRet"
                  /\ req[r].err = NoErr
                  /\ req[r].calls = prev.req[r].calls
                  /\ req[r].ret = IF prev.users[u].present /\ prev.users[u].xmppUsername # ""
                                     THEN prev.users[u].xmppUsername
                                     ELSE u
                  /\ users[u].present
                  /\ \A v \in UserIds : v # u => users[v] = prev.users[v])

\* the first call failed, the retry was answered with the conflict, and
\* ensureUser returned the plain userId, nothing being cached
C36_Witness ==
    \E r \in Requests :
        /\ req[r].w = "ensureRet" /\ req[r].out = E422Exists
        /\ req[r].err = NoErr
        /\ Len(UserCallsFor(r, req[r].i)) = 2
        /\ req[r].ret = req[r].parts[req[r].i]
        /\ users[req[r].parts[req[r].i]].obj = <<r, req[r].i>>

\* C37: when ensureUser fails during addParticipant, the request ends with an
\* error response (500) and leaves the Case record's participant list as it
\* is: the failing request issues no grant call and no step of it changes
\* the case map.
C37_FailedAddLeavesList ==
    /\ (\A r \in Requests :
            (prev.cur = r /\ prev.req[r].kind = "add") =>
                /\ (prev.req[r].w = "ensureRet" /\ prev.req[r].err # NoErr) =>
                      /\ req[r].h = "done" /\ req[r].resp.status = 500
                      /\ cases = prev.cases
                /\ cases # prev.cases => prev.req[r].err = NoErr)
    /\ (\A r \in Requests :
            (req[r].kind = "add" /\ req[r].err # NoErr) =>
                /\ GrantCalls(r) = <<>>
                /\ Done(r) => req[r].resp.status = 500)

\* both user-creation calls of an add-participant request failed, the
\* request was answered 500 and the record does not hold the participant
C37_Witness ==
    \E r \in Requests :
        /\ req[r].kind = "add" /\ Done(r)
        /\ req[r].err = E500 /\ Len(UserCalls(r)) = 2
        /\ req[r].resp.status = 500
        /\ cases[req[r].caseId].present
        /\ ~Includes(cases[req[r].caseId].participants, req[r].parts[1])

====
